---- MODULE Spec2Model ----
(***************************************************************************)
(* A model of the source-matching / regeneration engine of py-ast-utils    *)
(* (src/source_match.py, src/create_node.py, src/node_tree_util.py).       *)
(*                                                                         *)
(* Text is a sequence of one-character strings.  Python objects that the   *)
(* engine mutates in place (nodes, matchers, placeholders) are records;    *)
(* every operation returns the updated objects next to its result, and an  *)
(* exception is the field err of that result ("" when none was raised).    *)
(* Objects changed before an exception was raised stay changed, as in the  *)
(* source.                                                                 *)
(***************************************************************************)
EXTENDS Integers, Sequences, FiniteSets, TLC

VARIABLES tree, text, holder, out, ret, err, hist

vars == <<tree, text, holder, out, ret, err, hist>>

(***************************************************************************)
(* Python string primitives                                                *)
(***************************************************************************)
Min(a, b) == IF a <= b THEN a ELSE b

Take(s, n) == SubSeq(s, 1, Min(n, Len(s)))

Drop(s, n) == SubSeq(s, n + 1, Len(s))

\* str.startswith
StartsWith(s, p) == Len(p) <= Len(s) /\ SubSeq(s, 1, Len(p)) = p

\* str.find: the 0-based index of the first occurrence of sub, or -1
RECURSIVE FindFrom(_, _, _)
FindFrom(s, sub, i) ==
  IF i + Len(sub) > Len(s) THEN -1
  ELSE IF SubSeq(s, i + 1, i + Len(sub)) = sub THEN i
  ELSE FindFrom(s, sub, i + 1)

Find(s, sub) == FindFrom(s, sub, 0)

\* the characters str.strip / lstrip / rstrip remove and \s matches
Whitespace == {" ", "\t", "\n", "\r", "\f"}

RECURSIVE LStrip(_)
LStrip(s) ==
  IF Len(s) > 0 /\ s[1] \in Whitespace THEN LStrip(Tail(s)) ELSE s

RECURSIVE RStrip(_)
RStrip(s) ==
  IF Len(s) > 0 /\ s[Len(s)] \in Whitespace
  THEN RStrip(SubSeq(s, 1, Len(s) - 1)) ELSE s

\* ''.join(parts)
RECURSIVE Join(_)
Join(parts) == IF Len(parts) = 0 THEN <<>> ELSE Head(parts) \o Join(Tail(parts))

\* ' ' * n
RECURSIVE Spaces(_)
Spaces(n) == IF n <= 0 THEN <<>> ELSE <<" ">> \o Spaces(n - 1)

\* string[:-len(remaining)] when remaining is non-empty, else string
ButRemaining(string, remaining_string) ==
  IF Len(remaining_string) = 0 THEN string
  ELSE SubSeq(string, 1, Len(string) - Len(remaining_string))

(***************************************************************************)
(* Regular expressions as the re module matches them: re.match tries the   *)
(* pattern at position 0 by backtracking, quantifiers are greedy and       *)
(* alternatives are tried in order.  A pattern is a tree:                  *)
(*   lit (a literal string), cls (a character class), ws (\s), nl (\n),    *)
(*   any (.), seq, alt, star (zero or more), opt (zero or one).            *)
(***************************************************************************)
Lit(s) == [t |-> "lit", s |-> s]
Cls(cs) == [t |-> "cls", cs |-> cs]
Ws == [t |-> "ws"]
Nl == [t |-> "nl"]
Dot == [t |-> "any"]
Cat(rs) == [t |-> "seq", rs |-> rs]
Alt(rs) == [t |-> "alt", rs |-> rs]
Star(r) == [t |-> "star", r |-> r, from |-> -1]
Opt(r) == [t |-> "opt", r |-> r]

\* The end of the first match of the patterns rs, one after the other, in s
\* from offset i, or -1.  A star that made no progress since its last
\* iteration stops iterating.
RECURSIVE ReFirst(_, _, _, _)
RECURSIVE ReAlt(_, _, _, _, _, _)
RECURSIVE ReStar(_, _, _, _, _)
ReFirst(rs, s, i, dotall) ==
  IF Len(rs) = 0 THEN i
  ELSE
    LET h == Head(rs)
        tl == Tail(rs)
    IN CASE h.t = "lit" ->
              IF StartsWith(Drop(s, i), h.s)
              THEN ReFirst(tl, s, i + Len(h.s), dotall) ELSE -1
         [] h.t = "cls" ->
              IF i < Len(s) /\ s[i + 1] \in h.cs
              THEN ReFirst(tl, s, i + 1, dotall) ELSE -1
         [] h.t = "ws" ->
              IF i < Len(s) /\ s[i + 1] \in Whitespace
              THEN ReFirst(tl, s, i + 1, dotall) ELSE -1
         [] h.t = "nl" ->
              IF i < Len(s) /\ s[i + 1] = "\n"
              THEN ReFirst(tl, s, i + 1, dotall) ELSE -1
         [] h.t = "any" ->
              IF i < Len(s) /\ (dotall \/ s[i + 1] # "\n")
              THEN ReFirst(tl, s, i + 1, dotall) ELSE -1
         [] h.t = "seq" -> ReFirst(h.rs \o tl, s, i, dotall)
         [] h.t = "alt" -> ReAlt(h.rs, 1, tl, s, i, dotall)
         [] h.t = "opt" ->
              LET taken == ReFirst(<<h.r>> \o tl, s, i, dotall)
              IN IF taken # -1 THEN taken ELSE ReFirst(tl, s, i, dotall)
         [] h.t = "star" /\ h.r.t \in {"cls", "ws", "nl", "any"} ->
              \* a starred single character takes the longest run of it
              LET one(c) == CASE h.r.t = "cls" -> c \in h.r.cs
                              [] h.r.t = "ws" -> c \in Whitespace
                              [] h.r.t = "nl" -> c = "\n"
                              [] h.r.t = "any" -> dotall \/ c # "\n"
                  longest == CHOOSE n \in 0..(Len(s) - i) :
                               /\ \A j \in 1..n : one(s[i + j])
                               /\ (i + n < Len(s) => ~one(s[i + n + 1]))
              IN ReStar(tl, s, i, longest, dotall)
         [] h.t = "star" ->
              IF h.from = i THEN ReFirst(tl, s, i, dotall)
              ELSE
                LET again == [h EXCEPT !.from = i]
                    taken == ReFirst(<<h.r, again>> \o tl, s, i, dotall)
                IN IF taken # -1 THEN taken ELSE ReFirst(tl, s, i, dotall)

\* backtracking into a starred single character that took n of them: the
\* rest of the pattern is tried after n, then after one less, down to none
ReStar(tl, s, i, n, dotall) ==
  LET taken == ReFirst(tl, s, i + n, dotall)
  IN IF taken # -1 \/ n = 0 THEN taken ELSE ReStar(tl, s, i, n - 1, dotall)

ReAlt(alts, k, tl, s, i, dotall) ==
  IF k > Len(alts) THEN -1
  ELSE
    LET taken == ReFirst(<<alts[k]>> \o tl, s, i, dotall)
    IN IF taken # -1 THEN taken ELSE ReAlt(alts, k + 1, tl, s, i, dotall)

\* re.match(regex, string[, re.DOTALL]): the length of match.group(0), or -1
ReMatch(regex, string, dotall) == ReFirst(<<regex>>, string, 0, dotall)

(***************************************************************************)
(* Exceptions                                                              *)
(***************************************************************************)
NoError == ""
BadlySpecifiedTemplateError == "BadlySpecifiedTemplateError"
ValueError == "ValueError"
AttributeError == "AttributeError"
IndexError == "IndexError"
TypeError == "TypeError"

\* the functions and methods of the engine call each other through Invoke
RECURSIVE Invoke(_, _)
RECURSIVE GetSource(_, _, _, _)
RECURSIVE MatchPlaceholder(_, _, _, _, _)
RECURSIVE MatcherMatch(_, _)
RECURSIVE PlaceholderMatch(_, _, _, _)

\* the loops of the engine
RECURSIVE MatchPlaceholderListFrom(_, _, _, _)
RECURSIVE ElementsGetSource(_, _, _)
RECURSIVE StringParserParse(_, _, _, _)
RECURSIVE SyntaxFreeLoop(_, _, _, _)
RECURSIVE BodyChildrenLoop(_, _, _)

(***************************************************************************)
(* TextPlaceholder                                                         *)
(***************************************************************************)
\* what _TransformRegex puts in place of \s*: \s*(\\\s*|#.*\s*)*
WhitespaceRegex ==
  Cat(<<Star(Ws),
        Star(Alt(<<Cat(<<Lit(<<"\\">>), Star(Ws)>>),
                   Cat(<<Lit(<<"#">>), Star(Dot), Star(Ws)>>)>>))>>)

\* what _TransformRegex puts in place of \n: ( *#.*\n| *;| *\n)
LinebreakRegex ==
  Alt(<<Cat(<<Star(Lit(<<" ">>)), Lit(<<"#">>), Star(Dot), Nl>>),
        Cat(<<Star(Lit(<<" ">>)), Lit(<<";">>)>>),
        Cat(<<Star(Lit(<<" ">>)), Nl>>)>>)

\* TextPlaceholder._TransformRegex: every occurrence of \s* and of \n in the
\* pattern is replaced; the replacements are not scanned again in the same
\* call.
RECURSIVE TransformRegex(_)
TransformRegex(regex) ==
  CASE regex.t = "star" ->
         IF regex.r.t = "ws" THEN WhitespaceRegex
         ELSE [regex EXCEPT !.r = TransformRegex(regex.r)]
    [] regex.t = "nl" -> LinebreakRegex
    [] regex.t = "opt" -> [regex EXCEPT !.r = TransformRegex(regex.r)]
    [] regex.t \in {"seq", "alt"} ->
         [regex EXCEPT !.rs = [k \in DOMAIN regex.rs |-> TransformRegex(regex.rs[k])]]
    [] OTHER -> regex

\* TextPlaceholder.__init__; matched_text is <<>> for None and <<t>> for the
\* text t.  A default of None is given as the pattern's own characters.
TextPlaceholder(regex, default) ==
  [kind |-> "TextPlaceholder",
   regex |-> TransformRegex(regex),
   default |-> default,
   matched_text |-> <<>>]

\* a faulty Match that returns the matched prefix and does not record it
TextPlaceholderMatchUnrecorded(p, string, dotall) ==
  LET match_attempt == ReMatch(p.regex, string, dotall)
  IN IF match_attempt = -1
     THEN [p |-> p, s |-> <<>>, err |-> BadlySpecifiedTemplateError]
     ELSE [p |-> p, s |-> Take(string, match_attempt), err |-> NoError]

\* TextPlaceholder.Match
TextPlaceholderMatch(p, string, dotall) ==
  LET match_attempt == ReMatch(p.regex, string, dotall)
  IN IF match_attempt = -1
     THEN [p |-> p, s |-> <<>>, err |-> BadlySpecifiedTemplateError]
     ELSE [p |-> [p EXCEPT !.matched_text = <<Take(string, match_attempt)>>],
           s |-> Take(string, match_attempt),
           err |-> NoError]

\* a faulty GetSource that forgets the text the placeholder matched
TextPlaceholderGetDefault(p) == p.default

\* TextPlaceholder.GetSource
TextPlaceholderGetSource(p) ==
  IF Len(p.matched_text) = 0 THEN p.default ELSE p.matched_text[1]

\* TextPlaceholder.Copy
TextPlaceholderCopy(p) == TextPlaceholder(p.regex, p.default)

(***************************************************************************)
(* Python values and AST nodes.  Every value is a record with a kind: the  *)
(* scalars None, str and int, a list, or a node of the _ast kind named.    *)
(* A node's matcher attribute is <<>> while absent and <<m>> once set.     *)
(* A statement's module_node says whether it carries the back-reference to *)
(* the enclosing module, and uid stands for the object's identity.         *)
(***************************************************************************)
PyNone == [kind |-> "None"]
PyStr(v) == [kind |-> "str", v |-> v]
PyInt(v) == [kind |-> "int", v |-> v]
\* a Python 2 long, which is not an instance of int
PyLong(v) == [kind |-> "long", v |-> v]
PyList(items) == [kind |-> "list", items |-> items]

\* bool(value)
Truthy(value) ==
  CASE value.kind = "None" -> FALSE
    [] value.kind = "str" -> Len(value.v) > 0
    [] value.kind \in {"int", "long"} -> value.v # 0
    [] value.kind = "list" -> Len(value.items) > 0
    [] OTHER -> TRUE

\* isinstance(value, (list, tuple))
IsList(value) == value.kind = "list"

\* isinstance(value, _ast.AST)
IsNode(value) == value.kind \notin {"None", "str", "int", "long", "list"}

\* the subclasses of _ast.stmt in the model
StmtKinds == {"Expr", "Pass", "While", "If", "TryFinally", "With", "SyntaxFreeLine"}

\* isinstance(value, _ast.stmt)
IsStmt(value) == value.kind \in StmtKinds

Name(id) == [kind |-> "Name", id |-> PyStr(id), matcher |-> <<>>]

Num(n) == [kind |-> "Num", n |-> PyInt(n), matcher |-> <<>>]

Str(s) == [kind |-> "Str", s |-> PyStr(s), matcher |-> <<>>]

Attribute(value, attr) ==
  [kind |-> "Attribute", value |-> value, attr |-> PyStr(attr), matcher |-> <<>>]

BinOp(left, op, right) ==
  [kind |-> "BinOp", left |-> left, op |-> op, right |-> right, matcher |-> <<>>]

\* an operator node: Add, Sub, LShift, RShift
Operator(kind) == [kind |-> kind, matcher |-> <<>>]

Expr(value, uid, module_node) ==
  [kind |-> "Expr", value |-> value, matcher |-> <<>>,
   uid |-> uid, module_node |-> module_node]

Pass(uid, module_node) ==
  [kind |-> "Pass", matcher |-> <<>>, uid |-> uid, module_node |-> module_node]

While(test, body, uid, module_node) ==
  [kind |-> "While", test |-> test, body |-> PyList(body),
   orelse |-> PyList(<<>>), matcher |-> <<>>,
   uid |-> uid, module_node |-> module_node]

\* create_node.If
If(conditional, body, orelse, uid) ==
  [kind |-> "If", test |-> conditional, body |-> PyList(body),
   orelse |-> PyList(orelse), matcher |-> <<>>,
   uid |-> uid, module_node |-> FALSE]

TryFinally(body, finalbody, uid, module_node) ==
  [kind |-> "TryFinally", body |-> PyList(body), finalbody |-> PyList(finalbody),
   matcher |-> <<>>, uid |-> uid, module_node |-> module_node]

With(context_expr, body, uid, module_node) ==
  [kind |-> "With", context_expr |-> context_expr, optional_vars |-> PyNone,
   body |-> PyList(body), matcher |-> <<>>,
   uid |-> uid, module_node |-> module_node]

Module(body) == [kind |-> "Module", body |-> PyList(body), matcher |-> <<>>]

\* create_node.SyntaxFreeLine.__init__; comment is PyNone or a str
SyntaxFreeLine(comment, col_offset, comment_indent) ==
  [kind |-> "SyntaxFreeLine", comment |-> comment, col_offset |-> col_offset,
   comment_indent |-> comment_indent, matcher |-> <<>>,
   uid |-> 0, module_node |-> FALSE]

\* the property SyntaxFreeLine.full_line
full_line(node) ==
  IF node.comment.kind # "None"
  THEN Spaces(node.col_offset) \o <<"#">> \o Spaces(node.comment_indent)
         \o node.comment.v
  ELSE <<>>

\* getattr(node, field_name)
GetAttr(node, field_name) ==
  IF node.kind = "SyntaxFreeLine" /\ field_name = "full_line"
  THEN PyStr(full_line(node))
  ELSE node[field_name]

\* the child of node that an element refers to: the field itself (index 0)
\* or the item of the list field at index
GetChild(node, field_name, index) ==
  IF index = 0 THEN GetAttr(node, field_name)
  ELSE node[field_name].items[index]

\* node with that child replaced (the child object was changed in place)
SetChild(node, field_name, index, child) ==
  IF node.kind = "SyntaxFreeLine" /\ field_name = "full_line" THEN node
  ELSE IF index = 0 THEN [node EXCEPT ![field_name] = child]
  ELSE [node EXCEPT ![field_name].items[index] = child]

(***************************************************************************)
(* Placeholders.  An optional TextPlaceholder attribute is <<>> or <<p>>.  *)
(***************************************************************************)
FieldPlaceholder(field_name, before_placeholder) ==
  [kind |-> "FieldPlaceholder",
   field_name |-> field_name,
   before_placeholder |-> before_placeholder]

ListFieldPlaceholder(field_name, before_placeholder, after_placeholder, prefix_placeholder, exclude_first_before) ==
  [kind |-> "ListFieldPlaceholder",
   field_name |-> field_name,
   prefix_placeholder |-> prefix_placeholder,
   before_placeholder |-> before_placeholder,
   after_placeholder |-> after_placeholder,
   exclude_first_before |-> exclude_first_before,
   matched_before |-> <<>>,
   matched_after |-> <<>>,
   match_after |-> FALSE]

SeparatedListFieldPlaceholder(field_name, separator_placeholder) ==
  ListFieldPlaceholder(field_name, <<separator_placeholder>>, <<>>, <<>>, TRUE)

BodyPlaceholder(field_name, before_placeholder, after_placeholder, prefix_placeholder, match_after) ==
  [ListFieldPlaceholder(field_name, before_placeholder, after_placeholder,
                        prefix_placeholder, FALSE)
     EXCEPT !.kind = "BodyPlaceholder", !.match_after = match_after]

GetStartParenMatcher == TextPlaceholder(Cat(<<Lit(<<"(">>), Star(Ws)>>), <<>>)

GetEndParenMatcher == TextPlaceholder(Cat(<<Star(Ws), Lit(<<")">>)>>), <<>>)

(***************************************************************************)
(* The templates of the registry                                           *)
(***************************************************************************)
SpaceStar == Star(Lit(<<" ">>))
BlankStar == Star(Cls({" ", "\t"}))

get_Add_expected_parts == <<TextPlaceholder(Lit(<<"+">>), <<"+">>)>>

get_Sub_expected_parts == <<TextPlaceholder(Lit(<<"-">>), <<"-">>)>>

get_LShift_expected_parts == <<TextPlaceholder(Lit(<<"<", "<">>), <<"<", "<">>)>>

get_RShift_expected_parts == <<TextPlaceholder(Lit(<<">", ">">>), <<">", ">">>)>>

get_Attribute_expected_parts ==
  <<FieldPlaceholder("value", <<>>),
    TextPlaceholder(Cat(<<Star(Ws), Lit(<<".">>), Star(Ws)>>), <<".">>),
    FieldPlaceholder("attr", <<>>)>>

get_BinOp_expected_parts ==
  <<FieldPlaceholder("left", <<>>),
    TextPlaceholder(Star(Ws), <<" ">>),
    FieldPlaceholder("op", <<>>),
    TextPlaceholder(Star(Ws), <<" ">>),
    FieldPlaceholder("right", <<>>)>>

get_Expr_expected_parts ==
  <<TextPlaceholder(SpaceStar, <<>>),
    FieldPlaceholder("value", <<>>),
    TextPlaceholder(Cat(<<SpaceStar, Nl>>), <<"\n">>)>>

get_Module_expected_parts == <<BodyPlaceholder("body", <<>>, <<>>, <<>>, FALSE)>>

get_Name_expected_parts == <<FieldPlaceholder("id", <<>>)>>

get_Pass_expected_parts ==
  <<TextPlaceholder(Cat(<<BlankStar, Lit(<<"p", "a", "s", "s">>), Nl>>),
                    <<"p", "a", "s", "s", "\n">>)>>

get_SyntaxFreeLine_expected_parts ==
  <<FieldPlaceholder("full_line", <<>>),
    TextPlaceholder(Nl, <<"\n">>)>>

get_While_expected_parts ==
  <<TextPlaceholder(Cat(<<BlankStar, Lit(<<"w", "h", "i", "l", "e">>), BlankStar>>),
                    <<"w", "h", "i", "l", "e", " ">>),
    FieldPlaceholder("test", <<>>),
    TextPlaceholder(Cat(<<BlankStar, Lit(<<":">>), BlankStar, Nl>>), <<":", "\n">>),
    BodyPlaceholder("body", <<>>, <<>>, <<>>, FALSE)>>

\* expected_parts of TupleSourceMatcher.__init__
TupleExpectedParts ==
  <<TextPlaceholder(Star(Ws), <<"(">>),
    SeparatedListFieldPlaceholder(
      "elts", TextPlaceholder(Cat(<<Star(Ws), Lit(<<",">>), Star(Ws)>>), <<",", " ">>)),
    TextPlaceholder(Cat(<<Star(Ws), Opt(Lit(<<",">>)), Star(Ws)>>), <<")">>)>>

\* the placeholders of WithSourceMatcher.__init__: with_placeholder,
\* context_expr, optional_vars, compound_separator, colon_placeholder and
\* body_placeholder
WithPlaceholders ==
  <<TextPlaceholder(Cat(<<SpaceStar, Opt(Lit(<<"w", "i", "t", "h">>)), SpaceStar>>),
                    <<"w", "i", "t", "h", " ">>),
    FieldPlaceholder("context_expr", <<>>),
    FieldPlaceholder("optional_vars",
                     <<TextPlaceholder(Cat(<<SpaceStar, Lit(<<"a", "s">>), SpaceStar>>),
                                       <<" ", "a", "s", " ">>)>>),
    TextPlaceholder(Cat(<<Star(Ws), Lit(<<",">>), Star(Ws)>>), <<",", " ">>),
    TextPlaceholder(Cat(<<Lit(<<":">>), Opt(Nl)>>), <<":", "\n">>),
    BodyPlaceholder("body", <<>>, <<>>, <<>>, FALSE)>>

\* the placeholders of IfSourceMatcher.__init__: if_placeholder,
\* test_placeholder, if_colon_placeholder, body_placeholder,
\* else_placeholder and orelse_placeholder
IfPlaceholders ==
  <<TextPlaceholder(Cat(<<SpaceStar, Lit(<<"i", "f">>), Star(Ws)>>), <<"i", "f", " ">>),
    FieldPlaceholder("test", <<>>),
    TextPlaceholder(Cat(<<Lit(<<":">>), Opt(Nl)>>), <<":", "\n">>),
    BodyPlaceholder("body", <<>>, <<>>, <<>>, FALSE),
    TextPlaceholder(Cat(<<SpaceStar, Lit(<<"e", "l", "s", "e", ":">>), Nl>>),
                    <<"e", "l", "s", "e", ":", "\n">>),
    BodyPlaceholder("orelse", <<>>, <<>>, <<>>, FALSE)>>

\* the kinds _matchers maps to a custom matcher class
CustomMatcherKinds == {"Num", "Str"}

\* the subclass of DefaultSourceMatcher _matchers maps a kind to, or
\* DefaultSourceMatcher itself for the kinds mapped to a template factory
DefaultMatcherClass(kind) ==
  CASE kind = "Tuple" -> "TupleSourceMatcher"
    [] OTHER -> "DefaultSourceMatcher"

\* _matchers[kind](), for the kinds mapped to a template factory
ExpectedParts(kind) ==
  CASE kind = "Add" -> get_Add_expected_parts
    [] kind = "Sub" -> get_Sub_expected_parts
    [] kind = "LShift" -> get_LShift_expected_parts
    [] kind = "RShift" -> get_RShift_expected_parts
    [] kind = "Attribute" -> get_Attribute_expected_parts
    [] kind = "BinOp" -> get_BinOp_expected_parts
    [] kind = "Expr" -> get_Expr_expected_parts
    [] kind = "Module" -> get_Module_expected_parts
    [] kind = "Name" -> get_Name_expected_parts
    [] kind = "Pass" -> get_Pass_expected_parts
    [] kind = "SyntaxFreeLine" -> get_SyntaxFreeLine_expected_parts
    [] kind = "While" -> get_While_expected_parts
    [] kind = "Tuple" -> TupleExpectedParts

(***************************************************************************)
(* Module-level helpers of source_match.py                                 *)
(***************************************************************************)
Digits == <<"0", "1", "2", "3", "4", "5", "6", "7", "8", "9">>

\* str(n) of an int
RECURSIVE NatToStr(_)
NatToStr(n) ==
  IF n < 10 THEN <<Digits[n + 1]>>
  ELSE NatToStr(n \div 10) \o <<Digits[(n % 10) + 1]>>

IntToStr(n) == IF n < 0 THEN <<"-">> \o NatToStr(0 - n) ELSE NatToStr(n)

StripStartParens(string) ==
  IF StartsWith(string, <<"(">>)
  THEN LET matched_text == Invoke("TextPlaceholderMatch", <<GetStartParenMatcher, string, FALSE>>).s
       IN Invoke("StripStartParens", <<Drop(string, Len(matched_text))>>)
  ELSE string

\* ValidateStart: FALSE where the source raises BadlySpecifiedTemplateError
ValidateStart(full_string, starting_string) ==
  StartsWith(Invoke("StripStartParens", <<full_string>>), Invoke("StripStartParens", <<starting_string>>))

\* _GetListDefault(l, index, default), index counted from 1
GetListDefault(l, index, default) ==
  IF index <= Len(l) THEN l[index] ELSE TextPlaceholderCopy(default)

(***************************************************************************)
(* SyntaxFreeLine (create_node.py)                                         *)
(***************************************************************************)
\* the pattern of SyntaxFreeLine.MatchesStart: ^([ \t]*)(?:|(#)([ \t]*)(.*))\n
SyntaxFreeLineRegex ==
  Cat(<<BlankStar,
        Alt(<<Cat(<<>>), Cat(<<Lit(<<"#">>), BlankStar, Star(Dot)>>)>>),
        Lit(<<"\n">>)>>)

MatchesStart(string) == Invoke("ReMatch", <<SyntaxFreeLineRegex, string, FALSE>>) # -1

\* the length of the longest prefix of s made of characters of cs
RECURSIVE LeadingCount(_, _)
LeadingCount(s, cs) ==
  IF Len(s) > 0 /\ s[1] \in cs THEN 1 + LeadingCount(Tail(s), cs) ELSE 0

\* SyntaxFreeLine.SetFromSrcLine on a fresh SyntaxFreeLine(), for a line that
\* MatchesStart accepts: group 1 is the leading blanks, group 2 the #,
\* group 3 the blanks after it and group 4 the rest of the line.
SetFromSrcLine(line) ==
  LET group1 == LeadingCount(line, {" ", "\t"})
      after1 == Drop(line, group1)
      has_comment == StartsWith(after1, <<"#">>)
      after2 == Drop(after1, 1)
      group3 == LeadingCount(after2, {" ", "\t"})
      group4 == SubSeq(after2, group3 + 1, Len(after2) - 1)
  IN IF has_comment
     THEN SyntaxFreeLine(PyStr(group4), group1, group3)
     ELSE SyntaxFreeLine(PyNone, group1, 0)

(***************************************************************************)
(* SourceMatcher: the state every matcher has.  shared says that           *)
(* start_paren_matchers is the list object the caller passed in (the       *)
(* source aliases a non-empty stripped_parens list).                       *)
(***************************************************************************)
SourceMatcher(kind, stripped_parens) ==
  [kind |-> kind,
   start_paren_matchers |-> stripped_parens,
   end_paren_matchers |-> <<>>,
   paren_wrapped |-> FALSE,
   shared |-> Len(stripped_parens) > 0]

\* IfSourceMatcher.__init__
IfSourceMatcherInit(starting_parens) ==
  SourceMatcher("IfSourceMatcher", starting_parens)
    @@ [placeholders |-> IfPlaceholders, is_elif |-> FALSE, if_indent |-> 0]

\* WithSourceMatcher.__init__
WithSourceMatcherInit(starting_parens) ==
  SourceMatcher("WithSourceMatcher", starting_parens)
    @@ [placeholders |-> WithPlaceholders,
        is_compound_with |-> FALSE,
        starting_with |-> TRUE]

\* ''.join(matcher.GetSource(None) for matcher in matchers)
RECURSIVE JoinSources(_)
JoinSources(matchers) ==
  IF Len(matchers) = 0 THEN <<>>
  ELSE TextPlaceholderGetSource(Head(matchers)) \o JoinSources(Tail(matchers))

GetStartParenText(m) ==
  IF m.paren_wrapped THEN JoinSources(m.start_paren_matchers) ELSE <<>>

GetEndParenText(m) ==
  IF m.paren_wrapped THEN JoinSources(m.end_paren_matchers) ELSE <<>>

\* MatchPlaceholder(string, None, placeholder) for a TextPlaceholder
MatchTextPlaceholder(string, placeholder) ==
  LET r == Invoke("TextPlaceholderMatch", <<placeholder, string, FALSE>>)
      matched_text == r.s
      index == Find(string, matched_text)
  IN IF r.err # NoError THEN [p |-> r.p, rem |-> string, err |-> r.err]
     ELSE IF Len(matched_text) = 0
     THEN [p |-> r.p, rem |-> string, err |-> NoError]
     ELSE IF ~Invoke("ValidateStart", <<string, matched_text>>)
             \/ Len(Invoke("StripStartParens", <<Take(string, index)>>)) > 0
     THEN [p |-> r.p, rem |-> string, err |-> BadlySpecifiedTemplateError]
     ELSE [p |-> r.p, rem |-> Drop(string, index + Len(matched_text)),
           err |-> NoError]

\* SourceMatcher.MatchStartParens: MatchPlaceholder on a fresh start-paren
\* matcher until it raises; every matched one is appended.
MatchStartParens(m, remaining_string) ==
  LET r == Invoke("MatchTextPlaceholder", <<remaining_string, GetStartParenMatcher>>)
  IN IF r.err # NoError THEN [m |-> m, rem |-> remaining_string]
     ELSE Invoke("MatchStartParens", <<
            [m EXCEPT !.start_paren_matchers = Append(@, r.p)], r.rem>>)

\* the loop of MatchEndParen: at most count end parens, each appended
MatchEndParenLoop(m, remaining_string, count) ==
  IF count = 0 THEN m
  ELSE
    LET r == Invoke("MatchTextPlaceholder", <<remaining_string, GetEndParenMatcher>>)
    IN IF r.err # NoError THEN m
       ELSE Invoke("MatchEndParenLoop", <<
              [m EXCEPT !.end_paren_matchers = Append(@, r.p),
                        !.paren_wrapped = TRUE],
              r.rem, count - 1>>)

\* SourceMatcher.MatchEndParen.  m is the matcher afterwards and left is
\* what remains in the list object that start_paren_matchers was on entry.
MatchEndParen(m, string) ==
  IF Len(m.start_paren_matchers) = 0
  THEN [m |-> m, left |-> m.start_paren_matchers]
  ELSE
    LET looped == Invoke("MatchEndParenLoop", <<m, string, Len(m.start_paren_matchers)>>)
        starts == looped.start_paren_matchers
        min_size == Min(Len(starts), Len(looped.end_paren_matchers))
    IN IF min_size = 0 THEN [m |-> looped, left |-> starts]
       ELSE [m |-> [looped EXCEPT
                      !.start_paren_matchers =
                         SubSeq(starts, Len(starts) - min_size + 1, Len(starts)),
                      !.end_paren_matchers = SubSeq(@, 1, min_size),
                      !.shared = FALSE],
             left |-> SubSeq(starts, 1, Len(starts) - min_size)]

(***************************************************************************)
(* StringParser._ProcessSubstring                                          *)
(***************************************************************************)
\* rem is the new remaining_string; str.split with an empty separator
\* raises ValueError
ProcessSubstring(remaining_string, substring) ==
  LET stripped_substring == Invoke("StripStartParens", <<substring>>)
      stripped_remaining == Invoke("StripStartParens", <<remaining_string>>)
  IN IF Len(substring) = 0
     THEN [rem |-> remaining_string, err |-> NoError]
     ELSE IF ~StartsWith(stripped_remaining, stripped_substring)
     THEN [rem |-> remaining_string, err |-> BadlySpecifiedTemplateError]
     ELSE IF Len(stripped_substring) = 0
     THEN [rem |-> remaining_string, err |-> ValueError]
     ELSE [rem |-> Drop(remaining_string,
                        Find(remaining_string, stripped_substring)
                          + Len(stripped_substring)),
           err |-> NoError]

(***************************************************************************)
(* NumSourceMatcher                                                        *)
(***************************************************************************)
NumSourceMatcher(starting_parens) ==
  [kind |-> "NumSourceMatcher",
   start_paren_matchers |-> starting_parens,
   end_paren_matchers |-> <<>>,
   paren_wrapped |-> FALSE,
   shared |-> Len(starting_parens) > 0,
   matched_num |-> <<>>,
   matched_as_str |-> <<>>,
   suffix |-> <<>>]

DecimalDigits == {"0", "1", "2", "3", "4", "5", "6", "7", "8", "9"}

\* the pattern [+-]?(0x[0-9a-f]*|0[0-7]*|\d+) of NumSourceMatcher.Match
IntRegex ==
  Cat(<<Opt(Cls({"+", "-"})),
        Alt(<<Cat(<<Lit(<<"0", "x">>),
                    Star(Cls(DecimalDigits \cup {"a", "b", "c", "d", "e", "f"}))>>),
              Cat(<<Lit(<<"0">>), Star(Cls({"0", "1", "2", "3", "4", "5", "6", "7"}))>>),
              Cat(<<Cls(DecimalDigits), Star(Cls(DecimalDigits))>>)>>)>>)

\* NumSourceMatcher.Match for a node whose n is an int or a long (not a
\* float): the lexeme is what the pattern matches for an int and str(n)
\* otherwise.  re.match returning None makes .group raise AttributeError,
\* and a text without the lexeme makes the unpacking of string.split raise
\* ValueError.
NumSourceMatcherMatch(node, string) ==
  LET m == node.matcher[1]
      is_int == node.n.kind = "int"
      length == IF is_int THEN Invoke("ReMatch", <<IntRegex, string, FALSE>>)
                ELSE Len(IntToStr(node.n.v))
      node_as_str == IF is_int THEN Take(string, length) ELSE IntToStr(node.n.v)
      index == Find(string, node_as_str)
      after == Drop(string, index + length)
      has_suffix == Len(after) > 0 /\ after[1] \in {"l", "L", "j", "J"}
      matched == [m EXCEPT !.matched_num = <<node.n>>,
                           !.matched_as_str = node_as_str,
                           !.suffix = IF has_suffix THEN <<after[1]>> ELSE @]
  IN IF length = -1
     THEN [node |-> node, s |-> <<>>, sp |-> m.start_paren_matchers,
           err |-> AttributeError]
     ELSE IF index = -1
     THEN [node |-> [node EXCEPT !.matcher =
                       <<[m EXCEPT !.matched_num = <<node.n>>,
                                   !.matched_as_str = node_as_str]>>],
           s |-> <<>>, sp |-> m.start_paren_matchers, err |-> ValueError]
     ELSE [node |-> [node EXCEPT !.matcher = <<matched>>],
           s |-> IF has_suffix THEN Append(node_as_str, after[1]) ELSE node_as_str,
           sp |-> m.start_paren_matchers,
           err |-> NoError]

\* NumSourceMatcher.GetSource
NumSourceMatcherGetSource(node) ==
  LET m == node.matcher[1]
      node_as_str == IF Len(m.matched_num) > 0 /\ m.matched_num[1].v = node.n.v
                     THEN m.matched_as_str
                     ELSE IntToStr(node.n.v)
  IN [node |-> node,
      s |-> IF Len(m.suffix) > 0 THEN node_as_str \o m.suffix ELSE node_as_str,
      err |-> NoError]

(***************************************************************************)
(* StringPartPlaceholder and StrSourceMatcher                              *)
(***************************************************************************)
GetDefaultQuoteType == <<"\"">>

\* the number of backslashes that end string[:end]
RECURSIVE PrecedingBackslashes(_, _)
PrecedingBackslashes(string, end) ==
  IF end >= 1 /\ string[end] = "\\"
  THEN 1 + PrecedingBackslashes(string, end - 1) ELSE 0

\* a check that looks at the one character before the quote only
IsPrecededByBackslash(string, quote_index) ==
  quote_index > 0 /\ string[quote_index] = "\\"

\* _IsBackslashEscapedQuote(string, quote_index), quote_index counted from 0
IsBackslashEscapedQuote(string, quote_index) ==
  PrecedingBackslashes(string, quote_index) % 2 = 1

FindQuoteEnd(string, quote_type) ==
  LET trial_index == Find(string, quote_type)
      new_start == trial_index + 1
      rest_index == Invoke("FindQuoteEnd", <<Drop(string, new_start), quote_type>>)
  IN IF trial_index = -1 THEN -1
     ELSE IF ~IsBackslashEscapedQuote(string, trial_index) THEN trial_index
     ELSE IF rest_index = -1 THEN -1
     ELSE new_start + rest_index

\* the pattern of the prefix placeholder: ur|uR|Ur|UR|u|r|U|R|
StringPrefixRegex ==
  Alt(<<Lit(<<"u", "r">>), Lit(<<"u", "R">>), Lit(<<"U", "r">>), Lit(<<"U", "R">>),
        Lit(<<"u">>), Lit(<<"r">>), Lit(<<"U">>), Lit(<<"R">>), Cat(<<>>)>>)

\* the pattern of the quote placeholder: three double quotes, three single
\* quotes, one double quote or one single quote
QuoteRegex ==
  Alt(<<Lit(<<"\"", "\"", "\"">>), Lit(<<"'", "'", "'">>),
        Lit(<<"\"">>), Lit(<<"'">>)>>)

\* StringPartPlaceholder.__init__; the quote placeholder is given no default,
\* so its default is the characters of its pattern
StringPartPlaceholder ==
  [kind |-> "StringPartPlaceholder",
   prefix_placeholder |-> TextPlaceholder(StringPrefixRegex, <<>>),
   quote_match_placeholder |->
     TextPlaceholder(QuoteRegex,
                     <<"\"", "\"", "\"", "|", "\\", "'", "\\", "'", "\\", "'",
                       "|", "\"", "|", "\\", "'">>),
   inner_text_placeholder |-> TextPlaceholder(Star(Dot), <<>>)]

\* StringPartPlaceholder.Match
StringPartPlaceholderMatch(p, string) ==
  LET prefix == Invoke("TextPlaceholderMatch", <<p.prefix_placeholder, string, FALSE>>)
      after_prefix == Invoke("ProcessSubstring", <<string, prefix.s>>)
      quote == Invoke("TextPlaceholderMatch", <<p.quote_match_placeholder, after_prefix.rem, FALSE>>)
      after_quote == Invoke("ProcessSubstring", <<after_prefix.rem, quote.s>>)
      quote_type == quote.s
      end_index == Invoke("FindQuoteEnd", <<after_quote.rem, quote_type>>)
      inner == Invoke("TextPlaceholderMatch", <<p.inner_text_placeholder,
                                    Take(after_quote.rem, end_index), TRUE>>)
      remaining_string == Drop(after_quote.rem, end_index + Len(quote_type))
      p1 == [p EXCEPT !.prefix_placeholder = prefix.p]
      p2 == [p1 EXCEPT !.quote_match_placeholder = quote.p]
  IN IF prefix.err # NoError THEN [p |-> p, s |-> <<>>, err |-> prefix.err]
     ELSE IF after_prefix.err # NoError
     THEN [p |-> p1, s |-> <<>>, err |-> after_prefix.err]
     ELSE IF quote.err # NoError THEN [p |-> p1, s |-> <<>>, err |-> quote.err]
     ELSE IF after_quote.err # NoError
     THEN [p |-> p2, s |-> <<>>, err |-> after_quote.err]
     ELSE IF end_index = -1 THEN [p |-> p2, s |-> <<>>, err |-> ValueError]
     ELSE IF inner.err # NoError THEN [p |-> p2, s |-> <<>>, err |-> inner.err]
     ELSE [p |-> [p2 EXCEPT !.inner_text_placeholder = inner.p],
           s |-> ButRemaining(string, remaining_string),
           err |-> NoError]

\* StringPartPlaceholder.GetSource
StringPartPlaceholderGetSource(p) ==
  TextPlaceholderGetSource(p.prefix_placeholder)
    \o TextPlaceholderGetSource(p.quote_match_placeholder)
    \o TextPlaceholderGetSource(p.inner_text_placeholder)
    \o TextPlaceholderGetSource(p.quote_match_placeholder)

\* MatchPlaceholder(string, None, part) for a StringPartPlaceholder
MatchStringPart(string, part) ==
  LET r == Invoke("StringPartPlaceholderMatch", <<part, string>>)
      matched_text == Invoke("StripStartParens", <<r.s>>)
      index == Find(string, matched_text)
  IN IF r.err # NoError THEN [p |-> r.p, rem |-> string, err |-> r.err]
     ELSE IF Len(r.s) = 0 THEN [p |-> r.p, rem |-> string, err |-> NoError]
     ELSE IF ~Invoke("ValidateStart", <<string, r.s>>)
     THEN [p |-> r.p, rem |-> string, err |-> BadlySpecifiedTemplateError]
     ELSE IF Len(matched_text) = 0 \/ index = -1
     THEN [p |-> r.p, rem |-> string, err |-> ValueError]
     ELSE IF Len(Invoke("StripStartParens", <<Take(string, index)>>)) > 0
     THEN [p |-> r.p, rem |-> string, err |-> BadlySpecifiedTemplateError]
     ELSE [p |-> r.p, rem |-> Drop(string, index + Len(matched_text)),
           err |-> NoError]

StrSourceMatcher(starting_parens) ==
  [kind |-> "StrSourceMatcher",
   start_paren_matchers |-> starting_parens,
   end_paren_matchers |-> <<>>,
   paren_wrapped |-> FALSE,
   shared |-> Len(starting_parens) > 0,
   separator_placeholder |-> TextPlaceholder(Star(Ws), <<>>),
   quote_parts |-> <<>>,
   separators |-> <<>>,
   quote_type |-> <<>>,
   original_quote_type |-> <<>>,
   original_s |-> <<>>]

\* string[:-n]
SliceToMinus(string, n) ==
  IF n = 0 THEN <<>> ELSE SubSeq(string, 1, Len(string) - n)

StringPrefixes ==
  <<<<"u", "r">>, <<"u", "R">>, <<"U", "r">>, <<"U", "R">>,
    <<"u">>, <<"U">>, <<"r">>, <<"R">>, <<>>>>

\* the two patterns StrSourceMatcher.Match tries on trial_string: an optional
\* prefix and a double quote, an optional prefix and a single quote
QuoteStartRegex(quote) ==
  Alt([k \in DOMAIN StringPrefixes |-> Lit(Append(StringPrefixes[k], quote))])

StartsQuote(trial_string) ==
  \/ Invoke("ReMatch", <<QuoteStartRegex("\""), trial_string, FALSE>>) # -1
  \/ Invoke("ReMatch", <<QuoteStartRegex("'"), trial_string, FALSE>>) # -1

\* the while loop of StrSourceMatcher.Match
StrPartsLoop(m, remaining_string) ==
  LET separator == TextPlaceholderCopy(m.separator_placeholder)
      trial == Invoke("MatchTextPlaceholder", <<remaining_string, separator>>)
      with_separator == [m EXCEPT !.separators = Append(@, trial.p)]
      part == Invoke("MatchStringPart", <<trial.rem, StringPartPlaceholder>>)
  IN IF trial.err # NoError
     THEN [m |-> m, rem |-> remaining_string, err |-> trial.err]
     ELSE IF ~Invoke("StartsQuote", <<trial.rem>>)
     THEN [m |-> m, rem |-> remaining_string, err |-> NoError]
     ELSE IF part.err # NoError
     THEN [m |-> with_separator, rem |-> trial.rem, err |-> part.err]
     ELSE Invoke("StrPartsLoop", <<[with_separator EXCEPT !.quote_parts = Append(@, part.p)],
                       part.rem>>)

\* StrSourceMatcher.Match
StrSourceMatcherMatch(node, string) ==
  LET m0 == node.matcher[1]
      started == Invoke("MatchStartParens", <<m0, string>>)
      m1 == [started.m EXCEPT !.original_s = <<node.s>>]
      first == Invoke("MatchStringPart", <<started.rem, StringPartPlaceholder>>)
      m2 == [m1 EXCEPT !.quote_parts = Append(@, first.p)]
      loop == Invoke("StrPartsLoop", <<m2, first.rem>>)
      ended == Invoke("MatchEndParen", <<loop.m, loop.rem>>)
      m3 == [ended.m EXCEPT !.original_quote_type =
                <<ended.m.quote_parts[1].quote_match_placeholder.matched_text[1]>>]
  IN IF first.err # NoError
     THEN [node |-> [node EXCEPT !.matcher = <<m1>>], s |-> <<>>,
           sp |-> IF m0.shared THEN m1.start_paren_matchers ELSE <<>>,
           err |-> first.err]
     ELSE IF loop.err # NoError
     THEN [node |-> [node EXCEPT !.matcher = <<loop.m>>], s |-> <<>>,
           sp |-> IF m0.shared THEN loop.m.start_paren_matchers ELSE <<>>,
           err |-> loop.err]
     ELSE [node |-> [node EXCEPT !.matcher = <<m3>>],
           s |-> GetStartParenText(m3)
                   \o SliceToMinus(string, Len(loop.rem))
                   \o GetEndParenText(m3),
           sp |-> IF m0.shared THEN ended.left ELSE <<>>,
           err |-> NoError]

\* the parts and separators that StrSourceMatcher.GetSource joins
RECURSIVE StrPartsSource(_, _)
StrPartsSource(m, index) ==
  IF index >= Len(m.quote_parts) THEN <<>>
  ELSE TextPlaceholderGetSource(
         GetListDefault(m.separators, index, m.separator_placeholder))
       \o StringPartPlaceholderGetSource(m.quote_parts[index + 1])
       \o StrPartsSource(m, index + 1)

\* StrSourceMatcher.GetSource
StrSourceMatcherGetSource(node) ==
  LET m == node.matcher[1]
      changed == Len(m.original_s) > 0 /\ m.original_s[1] # node.s
      collapsed ==
        IF changed
        THEN [m EXCEPT !.quote_parts =
                <<[@[1] EXCEPT !.inner_text_placeholder.matched_text = <<node.s.v>>]>>]
        ELSE m
      has_quote_type == Len(m.quote_type) > 0 /\ Len(m.quote_type[1]) > 0
      chosen == IF has_quote_type THEN m.quote_type[1]
                ELSE IF Len(m.original_quote_type) > 0
                        /\ Len(m.original_quote_type[1]) > 0
                THEN m.original_quote_type[1]
                ELSE GetDefaultQuoteType
      requoted ==
        IF has_quote_type
        THEN [collapsed EXCEPT !.quote_parts =
                [k \in DOMAIN @ |->
                   [@[k] EXCEPT !.quote_match_placeholder.matched_text =
                                   <<m.quote_type[1]>>]]]
        ELSE collapsed
  IN IF Len(m.original_s) = 0
     THEN [node |-> [node EXCEPT !.matcher = <<[m EXCEPT !.quote_type = <<chosen>>]>>],
           s |-> chosen \o node.s.v \o chosen,
           err |-> NoError]
     ELSE IF Len(m.quote_parts) = 0
     THEN [node |-> node, s |-> <<>>,
           err |-> IF changed THEN IndexError ELSE AttributeError]
     ELSE [node |-> [node EXCEPT !.matcher = <<requoted>>],
           s |-> GetStartParenText(requoted)
                   \o StringPartPlaceholderGetSource(requoted.quote_parts[1])
                   \o StrPartsSource(requoted, 1)
                   \o GetEndParenText(requoted),
           err |-> NoError]

(***************************************************************************)
(* Elements.  GetElements returns placeholder objects that live inside     *)
(* their owner (a matcher or a composite placeholder) and NodePlaceholders *)
(* around children of the node.  An element is named by where its object   *)
(* lives: PhElement(slot, idx) is owner[slot][idx], NodeElement(field, idx)*)
(* is NodePlaceholder(GetChild(node, field, idx)).                         *)
(***************************************************************************)
PhElement(slot, idx) == [e |-> "ph", slot |-> slot, idx |-> idx]

NodeElement(field, idx) == [e |-> "node", field |-> field, idx |-> idx]

\* the expected_parts of a DefaultSourceMatcher as elements
PartElements(m) == [k \in DOMAIN m.expected_parts |-> PhElement("expected_parts", k)]

\* FieldPlaceholder.Validate and ListFieldPlaceholder.Validate: FALSE where
\* the source raises BadlySpecifiedTemplateError
Validate(p, node) ==
  LET field_value == GetAttr(node, p.field_name)
  IN IF p.kind = "FieldPlaceholder" THEN ~IsList(field_value)
     ELSE ~(Truthy(field_value) /\ ~IsList(field_value))

\* FieldPlaceholder.GetElements
FieldPlaceholderGetElements(p, node) ==
  IF ~Truthy(GetAttr(node, p.field_name)) THEN [p |-> p, elements |-> <<>>]
  ELSE [p |-> p,
        elements |-> (IF Len(p.before_placeholder) > 0
                      THEN <<PhElement("before_placeholder", 1)>> ELSE <<>>)
                     \o <<NodeElement(p.field_name, 0)>>]

\* ListFieldPlaceholder._GetBeforePlaceholder and _GetAfterPlaceholder, index
\* counted from 0: the placeholder at index where there is one, else a copy
\* appended at the end
GetMatchedPlaceholder(p, slot, template, index) ==
  IF index < Len(p[slot]) THEN [p |-> p, idx |-> index + 1]
  ELSE [p |-> [p EXCEPT ![slot] = Append(@, TextPlaceholderCopy(p[template][1]))],
        idx |-> Len(p[slot]) + 1]

\* ListFieldPlaceholder.GetValueAtIndex, index counted from 0
GetValueAtIndex(p, values, index) ==
  LET child_value == values[index + 1]
      use_before == Len(p.before_placeholder) > 0
                      /\ ~(p.exclude_first_before /\ index = 0)
      before_index == IF p.exclude_first_before THEN index - 1 ELSE index
      before == IF use_before
                THEN GetMatchedPlaceholder(p, "matched_before",
                                           "before_placeholder", before_index)
                ELSE [p |-> p, idx |-> 0]
      use_after == Len(p.after_placeholder) > 0
      after == IF use_after
               THEN GetMatchedPlaceholder(before.p, "matched_after",
                                          "after_placeholder", index)
               ELSE [p |-> before.p, idx |-> 0]
  IN IF child_value.kind = "SyntaxFreeLine"
     THEN [p |-> p, elements |-> <<NodeElement(p.field_name, index + 1)>>]
     ELSE [p |-> after.p,
           elements |->
             (IF use_before THEN <<PhElement("matched_before", before.idx)>> ELSE <<>>)
             \o <<NodeElement(p.field_name, index + 1)>>
             \o (IF use_after THEN <<PhElement("matched_after", after.idx)>> ELSE <<>>)]

\* the loop of GetElements over the values from index on
GetValuesFrom(p, values, index) ==
  IF index >= Len(values) THEN [p |-> p, elements |-> <<>>]
  ELSE LET here == Invoke("GetValueAtIndex", <<p, values, index>>)
           rest == Invoke("GetValuesFrom", <<here.p, values, index + 1>>)
       IN [p |-> rest.p, elements |-> here.elements \o rest.elements]

\* ListFieldPlaceholder.GetElements and BodyPlaceholder.GetElements
ListFieldPlaceholderGetElements(p, node) ==
  LET field_value == GetAttr(node, p.field_name)
      values == IF Truthy(field_value) THEN field_value.items ELSE <<>>
      rest == Invoke("GetValuesFrom", <<p, values, 0>>)
  IN [p |-> rest.p,
      elements |-> (IF Len(p.prefix_placeholder) > 0 /\ Len(values) > 0
                    THEN <<PhElement("prefix_placeholder", 1)>> ELSE <<>>)
                   \o rest.elements]

GetElements(p, node) ==
  IF p.kind = "FieldPlaceholder" THEN FieldPlaceholderGetElements(p, node)
  ELSE Invoke("ListFieldPlaceholderGetElements", <<p, node>>)

(***************************************************************************)
(* node_tree_util.GetIndentLevel                                           *)
(***************************************************************************)
\* TYPE_TO_INDENT_FIELD restricted to the kinds of the model: the list
\* fields of a kind in the order of ast.iter_fields, and for each whether
\* the table names it, so that it adds a level
StmtListFields(kind) ==
  CASE kind = "Module" -> <<[field |-> "body", indent |-> 0]>>
    [] kind = "While" -> <<[field |-> "body", indent |-> 1],
                           [field |-> "orelse", indent |-> 0]>>
    [] kind = "TryFinally" -> <<[field |-> "body", indent |-> 0],
                                [field |-> "finalbody", indent |-> 1]>>
    [] kind = "With" -> <<[field |-> "body", indent |-> 1]>>
    [] OTHER -> <<>>

\* IndentLevelVisitor.__init__
IndentLevelVisitor == [current_indent |-> 0, final_indent |-> <<>>]

\* IndentLevelVisitor.visit: the visitor after the visit of node, looking
\* for the statement uid; final_indent is <<>> while it is None
RECURSIVE IndentLevelVisit(_, _, _), generic_visit(_, _, _)
RECURSIVE IndentLevelVisitFields(_, _, _, _, _), IndentLevelVisitItems(_, _, _, _)
IndentLevelVisit(node, uid, visitor) ==
  IF node.kind = "With" /\ Len(node.matcher) > 0
       /\ node.matcher[1].is_compound_with
  THEN generic_visit(node, uid, [visitor EXCEPT !.current_indent = @ - 1])
  ELSE generic_visit(node, uid, visitor)

generic_visit(node, uid, visitor) ==
  LET checked == IF IsStmt(node) /\ node.kind # "SyntaxFreeLine" /\ node.uid = uid
                 THEN [visitor EXCEPT !.final_indent = <<visitor.current_indent>>]
                 ELSE visitor
  IN IndentLevelVisitFields(node, StmtListFields(node.kind), 1, uid, checked)

IndentLevelVisitFields(node, fields, k, uid, visitor) ==
  IF k > Len(fields) THEN visitor
  ELSE LET entered == [visitor EXCEPT !.current_indent = @ + fields[k].indent]
           visited == IndentLevelVisitItems(node[fields[k].field].items, 1, uid,
                                            entered)
           left == [visited EXCEPT !.current_indent = @ - fields[k].indent]
       IN IndentLevelVisitFields(node, fields, k + 1, uid, left)

IndentLevelVisitItems(items, k, uid, visitor) ==
  IF k > Len(items) THEN visitor
  ELSE IndentLevelVisitItems(items, k + 1, uid,
                             IndentLevelVisit(items[k], uid, visitor))

\* GetIndentLevel(module_node, node_to_check): the level, or the ValueError
\* 'node is not in module.'
GetIndentLevel(module_node, node_to_check) ==
  LET visitor == IndentLevelVisit(module_node, node_to_check.uid,
                                  IndentLevelVisitor)
  IN IF visitor.final_indent = <<>>
     THEN [level |-> 0, err |-> ValueError]
     ELSE [level |-> visitor.final_indent[1], err |-> NoError]

(***************************************************************************)
(* The engine.  A result carries the objects the call changed in place:    *)
(* node (the node the call works on, its matcher attribute and children    *)
(* included), owner (the matcher or placeholder whose elements are         *)
(* matched), the returned string s or remaining string rem, and sp: the    *)
(* starting_parens list object after the call (a non-empty list is shared  *)
(* between a matcher and the first child matching at its left edge, which  *)
(* appends to it and pops from it).  A placeholder that is not at the left *)
(* edge keeps the starting_parens of its construction, the empty list.     *)
(***************************************************************************)

\* a GetMatcher that hands out the matcher attached to the node when there
\* is one
GetAttachedMatcher(node, starting_parens) ==
  IF Len(node.matcher) > 0 THEN node.matcher[1]
  ELSE CASE node.kind = "Num" -> NumSourceMatcher(starting_parens)
         [] node.kind = "Str" -> StrSourceMatcher(starting_parens)
         [] node.kind = "With" -> WithSourceMatcherInit(starting_parens)
         [] node.kind = "If" -> IfSourceMatcherInit(starting_parens)
         [] OTHER ->
              SourceMatcher(DefaultMatcherClass(node.kind), starting_parens)
                @@ [expected_parts |-> ExpectedParts(node.kind), matched |-> FALSE]

\* GetMatcher(node, starting_parens)
GetMatcher(node, starting_parens) ==
  CASE node.kind = "Num" -> NumSourceMatcher(starting_parens)
    [] node.kind = "Str" -> StrSourceMatcher(starting_parens)
    [] node.kind = "With" -> WithSourceMatcherInit(starting_parens)
    [] node.kind = "If" -> IfSourceMatcherInit(starting_parens)
    [] OTHER ->
         SourceMatcher(DefaultMatcherClass(node.kind), starting_parens)
           @@ [expected_parts |-> ExpectedParts(node.kind), matched |-> FALSE]

\* GetSource(field, text, starting_parens, assume_no_indent); text is <<>>
\* for None and for ''
GetSource(field, txt, starting_parens, assume_no_indent) ==
  CASE field.kind = "None" ->
         [node |-> field, s |-> <<>>, sp |-> starting_parens, err |-> NoError]
    [] field.kind = "str" ->
         [node |-> field, s |-> field.v, sp |-> starting_parens, err |-> NoError]
    [] field.kind = "int" ->
         [node |-> field, s |-> IntToStr(field.v), sp |-> starting_parens,
          err |-> NoError]
    [] OTHER ->
         LET attached ==
               [field EXCEPT !.matcher = <<GetMatcher(field, starting_parens)>>]
             \* return field.matcher.GetSource(), for the node and the
             \* starting_parens the steps before left and what they raised
             returns(node, sp, raised) ==
               IF raised # NoError
               THEN [node |-> node, s |-> <<>>, sp |-> sp, err |-> raised]
               ELSE LET got == Invoke("MatcherGetSource", <<node>>)
                    IN [node |-> got.node, s |-> got.s, sp |-> sp, err |-> got.err]
             after(ready, sp) == returns(ready.node, sp, ready.err)
             matched(ready) == returns(ready.node, ready.sp, ready.err)
         IN CASE Len(field.matcher) > 0 ->
                   returns(field, starting_parens, NoError)
              [] Len(field.matcher) = 0 /\ Len(txt) > 0 ->
                   matched(MatcherMatch(attached, txt))
              [] Len(field.matcher) = 0 /\ Len(txt) = 0
                   /\ IsStmt(field) /\ ~assume_no_indent ->
                   IF ~field.module_node
                   THEN returns(attached, starting_parens, ValueError)
                   ELSE after(Invoke("FixSourceIndentation", <<attached>>),
                              starting_parens)
              [] OTHER -> returns(attached, starting_parens, NoError)

\* FixSourceIndentation(node_to_fix.module_node, node_to_fix); the module is
\* the tree
FixSourceIndentation(node_to_fix) ==
  LET default_source == Invoke("MatcherGetSource", <<node_to_fix>>)
      fresh == [default_source.node EXCEPT
                  !.matcher = <<GetMatcher(default_source.node, <<>>)>>]
      indent == Invoke("GetIndentLevel", <<tree, node_to_fix>>)
      starting_indent == Spaces(2 * indent.level)
      matched == MatcherMatch(fresh, starting_indent \o default_source.s)
  IN IF default_source.err # NoError
     THEN [node |-> default_source.node, s |-> <<>>, sp |-> <<>>,
           err |-> default_source.err]
     ELSE IF indent.err # NoError
     THEN [node |-> fresh, s |-> <<>>, sp |-> <<>>, err |-> indent.err]
     ELSE [node |-> matched.node, s |-> matched.s, sp |-> <<>>,
           err |-> matched.err]

\* node.matcher.Match(string)
MatcherMatch(node, string) ==
  CASE node.matcher[1].kind = "NumSourceMatcher" -> Invoke("NumSourceMatcherMatch", <<node, string>>)
    [] node.matcher[1].kind = "StrSourceMatcher" -> Invoke("StrSourceMatcherMatch", <<node, string>>)
    [] node.matcher[1].kind = "TupleSourceMatcher" -> Invoke("TupleSourceMatcherMatch", <<node, string>>)
    [] node.matcher[1].kind = "WithSourceMatcher" -> Invoke("WithSourceMatcherMatch", <<node, string>>)
    [] node.matcher[1].kind = "IfSourceMatcher" -> Invoke("IfSourceMatcherMatch", <<node, string>>)
    [] OTHER -> Invoke("DefaultSourceMatcherMatch", <<node, string>>)

\* node.matcher.GetSource()
MatcherGetSource(node) ==
  CASE node.matcher[1].kind = "NumSourceMatcher" -> Invoke("NumSourceMatcherGetSource", <<node>>)
    [] node.matcher[1].kind = "StrSourceMatcher" -> Invoke("StrSourceMatcherGetSource", <<node>>)
    [] node.matcher[1].kind = "WithSourceMatcher" -> Invoke("WithSourceMatcherGetSource", <<node>>)
    [] node.matcher[1].kind = "IfSourceMatcher" -> Invoke("IfSourceMatcherGetSource", <<node>>)
    [] OTHER -> Invoke("DefaultSourceMatcherGetSource", <<node>>)

\* DefaultSourceMatcher.Match
DefaultSourceMatcherMatch(node, string) ==
  LET m0 == node.matcher[1]
      started == Invoke("MatchStartParens", <<m0, string>>)
      parts == Invoke("MatchPlaceholderListFrom", <<
                 1, started.rem, PartElements(started.m),
                 [owner |-> started.m, node |-> node, rem |-> started.rem,
                  sp |-> started.m.start_paren_matchers, err |-> NoError]>>)
      m1 == [parts.owner EXCEPT !.start_paren_matchers = parts.sp]
      ended == Invoke("MatchEndParen", <<m1, parts.rem>>)
      matched_string == ButRemaining(string, parts.rem)
  IN IF parts.err # NoError
     THEN [node |-> [parts.node EXCEPT !.matcher = <<m1>>], s |-> <<>>,
           sp |-> IF m0.shared THEN m1.start_paren_matchers ELSE <<>>,
           err |-> parts.err]
     ELSE [node |-> [parts.node EXCEPT !.matcher = <<ended.m>>],
           s |-> GetStartParenText(ended.m) \o matched_string
                   \o GetEndParenText(ended.m),
           sp |-> IF m0.shared THEN ended.left ELSE <<>>,
           err |-> NoError]

\* TupleSourceMatcher.Match; none tells that the call returns None
TupleSourceMatcherMatch(node, string) ==
  LET first == Invoke("DefaultSourceMatcherMatch", <<node, string>>)
      matched_text == RStrip(first.s)
  IN IF first.err # NoError THEN first @@ [none |-> FALSE]
     ELSE IF ~first.node.matcher[1].paren_wrapped
     THEN Invoke("DefaultSourceMatcherMatch", <<first.node, matched_text>>)
            @@ [none |-> FALSE]
     ELSE [first EXCEPT !.s = <<>>] @@ [none |-> TRUE]

\* remaining_string.startswith('elif'), without the lstrip of the source
StartsElifUnstripped(remaining_string) ==
  StartsWith(remaining_string, <<"e", "l", "i", "f">>)

\* remaining_string.lstrip().startswith('elif') of IfSourceMatcher.Match
StartsElif(remaining_string) ==
  StartsWith(LStrip(remaining_string), <<"e", "l", "i", "f">>)

\* IfSourceMatcher.Match
IfSourceMatcherMatch(node, string) ==
  LET m0 == [node.matcher[1] EXCEPT !.if_indent = Len(string) - Len(LStrip(string))]
      block == Invoke("MatchPlaceholderListFrom", <<
                 1, string,
                 <<PhElement("placeholders", 1), PhElement("placeholders", 2),
                   PhElement("placeholders", 3), PhElement("placeholders", 4)>>,
                 [owner |-> m0, node |-> node, rem |-> string, sp |-> <<>>,
                  err |-> NoError]>>)
      \* the blank and comment lines before the elif or else line
      lines == Invoke("SyntaxFreeLoop", <<block.rem, block.node.body.items, <<>>, TRUE>>)
      with_lines == [block.node EXCEPT !.body = PyList(lines.new_node)]
      is_elif == StartsElif(lines.rem)
      indent == Len(lines.rem) - Len(LStrip(lines.rem))
      as_if == Take(lines.rem, indent) \o Drop(lines.rem, indent + 2)
      m1 == [block.owner EXCEPT
               !.is_elif = TRUE,
               !.placeholders[6] = ListFieldPlaceholder("orelse", <<>>, <<>>, <<>>, FALSE)]
      else_line == IF is_elif
                   THEN [owner |-> m1, node |-> with_lines, rem |-> as_if,
                         sp |-> <<>>, err |-> NoError]
                   ELSE Invoke("MatchPlaceholder", <<lines.rem, block.owner, with_lines,
                                 PhElement("placeholders", 5), <<>> >>)
      orelse == Invoke("ElementMatch", <<else_line.owner, else_line.node,
                         PhElement("placeholders", 6), else_line.rem, <<>> >>)
      raised(owner, at, e) ==
        [node |-> [at EXCEPT !.matcher = <<owner>>], s |-> <<>>,
         sp |-> m0.start_paren_matchers, err |-> e]
  IN IF block.err # NoError THEN raised(block.owner, block.node, block.err)
     ELSE IF ~Truthy(block.node.orelse)
     THEN [node |-> [block.node EXCEPT !.matcher = <<block.owner>>],
           s |-> Take(string, Len(block.rem)),
           sp |-> m0.start_paren_matchers, err |-> NoError]
     ELSE IF lines.err # NoError THEN raised(block.owner, block.node, lines.err)
     ELSE IF else_line.err # NoError
     THEN raised(else_line.owner, else_line.node, else_line.err)
     ELSE IF orelse.err # NoError THEN raised(orelse.owner, orelse.node, orelse.err)
     ELSE [node |-> [orelse.node EXCEPT !.matcher = <<orelse.owner>>],
           \* remaining_string is the text orelse_placeholder.Match returns
           s |-> IF Len(orelse.s) = 0 THEN string ELSE Take(string, Len(orelse.s)),
           sp |-> m0.start_paren_matchers, err |-> NoError]

\* IfSourceMatcher.GetSource
IfSourceMatcherGetSource(node) ==
  LET m == node.matcher[1]
      block == Invoke("ElementsGetSource", <<
                 <<PhElement("placeholders", 1), PhElement("placeholders", 2),
                   PhElement("placeholders", 3), PhElement("placeholders", 4)>>, 1,
                 [owner |-> m, node |-> node, s |-> <<>>, err |-> NoError]>>)
      orelse == block.node.orelse
      as_elif == /\ Len(orelse.items) = 1
                 /\ orelse.items[1].kind = "If"
                 /\ m.is_elif
      elif_source == Invoke("GetSource", <<orelse.items[1], <<>>, <<>>, FALSE>>)
      indent == Len(elif_source.s) - Len(LStrip(elif_source.s))
      else_block == Invoke("ElementsGetSource", <<
                      <<PhElement("placeholders", 5), PhElement("placeholders", 6)>>, 1,
                      [owner |-> block.owner, node |-> block.node, s |-> block.s,
                       err |-> NoError]>>)
      returns(owner, at, source, e) ==
        [node |-> [at EXCEPT !.matcher = <<owner>>],
         s |-> IF e # NoError THEN <<>> ELSE source, err |-> e]
  IN IF block.err # NoError \/ ~Truthy(orelse)
     THEN returns(block.owner, block.node, block.s, block.err)
     ELSE IF as_elif
     THEN returns(block.owner,
                  [block.node EXCEPT !.orelse.items[1] = elif_source.node],
                  block.s \o Take(elif_source.s, indent) \o <<"e", "l">>
                    \o Drop(elif_source.s, indent),
                  elif_source.err)
     ELSE returns(else_block.owner, else_block.node, else_block.s, else_block.err)

\* WithSourceMatcher.Match
WithSourceMatcherMatch(node, string) ==
  LET m0 == node.matcher[1]
      m1 == IF StartsWith(LStrip(string), <<"w", "i", "t", "h">>)
            THEN [m0 EXCEPT !.starting_with = TRUE] ELSE m0
      item == Invoke("MatchPlaceholderListFrom", <<
                1, string,
                <<PhElement("placeholders", 1), PhElement("placeholders", 2),
                  PhElement("placeholders", 3)>>,
                [owner |-> m1, node |-> node, rem |-> string, sp |-> <<>>,
                 err |-> NoError]>>)
      compound == StartsWith(LStrip(item.rem), <<",">>)
      m2 == IF compound THEN [item.owner EXCEPT !.is_compound_with = TRUE]
            ELSE item.owner
      block == Invoke("MatchPlaceholderListFrom", <<
                 1, item.rem,
                 <<PhElement("placeholders", IF compound THEN 4 ELSE 5),
                   PhElement("placeholders", 6)>>,
                 [owner |-> m2, node |-> item.node, rem |-> item.rem, sp |-> <<>>,
                  err |-> NoError]>>)
      raised(st) == [node |-> [st.node EXCEPT !.matcher = <<st.owner>>], s |-> <<>>,
                     sp |-> m0.start_paren_matchers, err |-> st.err]
  IN IF item.err # NoError THEN raised(item)
     ELSE IF block.err # NoError THEN raised(block)
     ELSE [node |-> [block.node EXCEPT !.matcher = <<block.owner>>],
           s |-> IF Len(block.rem) = 0 THEN string
                 ELSE Take(string, Len(block.rem)),
           sp |-> m0.start_paren_matchers,
           err |-> NoError]

\* self.node.body[0].matcher.starting_with = False, body[0] being inner
MarkInner(node, inner) ==
  [node EXCEPT !.body.items[1] = [inner EXCEPT !.matcher[1].starting_with = FALSE]]

\* WithSourceMatcher.GetSource
WithSourceMatcherGetSource(node) ==
  LET m == node.matcher[1]
      first == node.body.items[1]
      compound == m.is_compound_with /\ first.kind = "With"
      \* GetSource(self.node.body[0], assume_no_indent=True) for a body[0]
      \* without a matcher
      attached == IF compound /\ Len(first.matcher) = 0
                  THEN Invoke("GetSource", <<first, <<>>, <<>>, TRUE>>)
                  ELSE [node |-> first, s |-> <<>>, sp |-> <<>>, err |-> NoError]
      marked == IF compound /\ attached.err = NoError
                THEN MarkInner(node, attached.node)
                ELSE node
      placeholder_list ==
        (IF m.starting_with THEN <<PhElement("placeholders", 1)>> ELSE <<>>)
          \o <<PhElement("placeholders", 2), PhElement("placeholders", 3),
                PhElement("placeholders", IF compound THEN 4 ELSE 5),
                PhElement("placeholders", 6)>>
      parts == Invoke("ElementsGetSource", <<placeholder_list, 1,
                        [owner |-> marked.matcher[1], node |-> marked, s |-> <<>>,
                         err |-> NoError]>>)
  IN IF attached.err # NoError
     THEN [node |-> node, s |-> <<>>, err |-> attached.err]
     ELSE [node |-> [parts.node EXCEPT !.matcher = <<parts.owner>>],
           s |-> IF parts.err # NoError THEN <<>> ELSE parts.s,
           err |-> parts.err]

\* DefaultSourceMatcher.GetSource
DefaultSourceMatcherGetSource(node) ==
  LET m == node.matcher[1]
      parts == Invoke("ElementsGetSource", <<PartElements(m), 1,
                                 [owner |-> m, node |-> node, s |-> <<>>,
                                  err |-> NoError]>>)
      source == IF parts.owner.paren_wrapped
                THEN GetStartParenText(parts.owner) \o parts.s
                       \o GetEndParenText(parts.owner)
                ELSE parts.s
  IN [node |-> [parts.node EXCEPT !.matcher = <<parts.owner>>],
      s |-> IF parts.err # NoError THEN <<>> ELSE source,
      err |-> parts.err]

\* MatchPlaceholder(string, node, placeholder), the placeholder being the
\* element el of owner, with the starting_parens sp set on it
MatchPlaceholder(string, owner, node, el, sp) ==
  LET r == Invoke("ElementMatch", <<owner, node, el, string, sp>>)
      is_text == el.e = "ph" /\ owner[el.slot][el.idx].kind = "TextPlaceholder"
      matched_text == IF is_text THEN r.s ELSE Invoke("StripStartParens", <<r.s>>)
      index == Find(string, matched_text)
      raised(e) == [owner |-> r.owner, node |-> r.node, rem |-> string,
                    sp |-> r.sp, err |-> e]
  IN IF r.err # NoError THEN raised(r.err)
     ELSE IF Len(r.s) = 0 THEN raised(NoError)
     ELSE IF ~Invoke("ValidateStart", <<string, r.s>>) THEN raised(BadlySpecifiedTemplateError)
     ELSE IF Len(matched_text) = 0 \/ index = -1 THEN raised(ValueError)
     ELSE IF Len(Invoke("StripStartParens", <<Take(string, index)>>)) > 0
     THEN raised(BadlySpecifiedTemplateError)
     ELSE [owner |-> r.owner, node |-> r.node,
           rem |-> Drop(string, index + Len(matched_text)),
           sp |-> r.sp, err |-> NoError]

\* MatchPlaceholderList(string, node, placeholders, starting_parens) from
\* the k-th placeholder on; st holds the objects and remaining_string.
\* The loop is unfolded from its last iteration: the placeholders before
\* the last one are matched first, then the last one, unless one raised.
MatchPlaceholderListFrom(k, string, elements, st) ==
  IF k > Len(elements) THEN st
  ELSE
    LET last == Len(elements)
        before == MatchPlaceholderListFrom(k, string, Take(elements, last - 1), st)
        at_edge == before.rem = string
        r == MatchPlaceholder(before.rem, before.owner, before.node,
                              elements[last],
                              IF at_edge THEN before.sp ELSE <<>>)
    IN IF before.err # NoError THEN before
       ELSE [owner |-> r.owner, node |-> r.node, rem |-> r.rem,
             sp |-> IF at_edge THEN r.sp ELSE before.sp, err |-> r.err]

\* element.Match(node, string): NodePlaceholder.Match for a node element,
\* the placeholder's own Match otherwise
ElementMatch(owner, node, el, string, sp) ==
  IF el.e = "node"
  THEN LET node_src == GetSource(GetChild(node, el.field, el.idx), string, sp, FALSE)
       IN [err |-> IF node_src.err # NoError THEN node_src.err
                   ELSE IF ~Invoke("ValidateStart", <<string, node_src.s>>)
                   THEN BadlySpecifiedTemplateError
                   ELSE NoError,
           owner |-> owner,
           node |-> SetChild(node, el.field, el.idx, node_src.node),
           s |-> node_src.s,
           sp |-> node_src.sp]
  ELSE LET r == PlaceholderMatch(owner[el.slot][el.idx], node, string, sp)
       IN [owner |-> [owner EXCEPT ![el.slot][el.idx] = r.p],
           node |-> r.node, s |-> r.s, sp |-> r.sp, err |-> r.err]

\* element.GetSource(node)
ElementGetSource(owner, node, el) ==
  IF el.e = "node"
  THEN LET node_src == Invoke("GetSource", <<GetChild(node, el.field, el.idx), <<>>, <<>>, FALSE>>)
       IN [owner |-> owner,
           node |-> SetChild(node, el.field, el.idx, node_src.node),
           s |-> node_src.s, err |-> node_src.err]
  ELSE LET r == Invoke("PlaceholderGetSource", <<owner[el.slot][el.idx], node>>)
       IN [owner |-> [owner EXCEPT ![el.slot][el.idx] = r.p],
           node |-> r.node, s |-> r.s, err |-> r.err]

\* ''.join(element.GetSource(node) for element in elements), from the k-th
ElementsGetSource(elements, k, st) ==
  IF k > Len(elements) THEN st
  ELSE LET r == Invoke("ElementGetSource", <<st.owner, st.node, elements[k]>>)
           joined == [owner |-> r.owner, node |-> r.node,
                      s |-> st.s \o r.s, err |-> r.err]
       IN IF r.err # NoError THEN joined
          ELSE ElementsGetSource(elements, k + 1, joined)

\* placeholder.Match(node, string) by the class of the placeholder
PlaceholderMatch(p, node, string, sp) ==
  CASE p.kind = "TextPlaceholder" ->
         LET r == Invoke("TextPlaceholderMatch", <<p, string, FALSE>>)
         IN [p |-> r.p, node |-> node, s |-> r.s, sp |-> sp, err |-> r.err]
    [] p.kind = "BodyPlaceholder" ->
         LET r == Invoke("BodyPlaceholderMatch", <<p, node, string>>)
         IN [p |-> r.p, node |-> r.node, s |-> r.s, sp |-> sp, err |-> r.err]
    [] OTHER -> Invoke("CompositePlaceholderMatch", <<p, node, string, sp>>)

\* placeholder.GetSource(node): TextPlaceholder.GetSource or
\* CompositePlaceholder.GetSource
PlaceholderGetSource(p, node) ==
  IF p.kind = "TextPlaceholder"
  THEN [p |-> p, node |-> node, s |-> TextPlaceholderGetSource(p), err |-> NoError]
  ELSE LET got == Invoke("GetElements", <<p, node>>)
           r == Invoke("ElementsGetSource", <<got.elements, 1,
                                  [owner |-> got.p, node |-> node, s |-> <<>>,
                                   err |-> NoError]>>)
       IN [p |-> r.owner, node |-> r.node, s |-> r.s, err |-> r.err]

\* CompositePlaceholder.Match
CompositePlaceholderMatch(p, node, string, sp) ==
  LET got == Invoke("GetElements", <<p, node>>)
      parser == Invoke("StringParserParse", <<
                  1, string, got.elements,
                  [owner |-> got.p, node |-> node, rem |-> string,
                   matched_substrings |-> <<>>, sp |-> sp, err |-> NoError]>>)
  IN IF ~Validate(p, node)
     THEN [p |-> p, node |-> node, s |-> <<>>, sp |-> sp,
           err |-> BadlySpecifiedTemplateError]
     ELSE [p |-> parser.owner, node |-> parser.node,
           s |-> Join(parser.matched_substrings), sp |-> parser.sp,
           err |-> parser.err]

\* StringParser.Parse from the k-th element on
StringParserParse(k, string, elements, st) ==
  IF k > Len(elements) THEN st
  ELSE
    LET at_edge == st.rem = string
        r == Invoke("ElementMatch", <<st.owner, st.node, elements[k], st.rem,
                          IF at_edge THEN st.sp ELSE <<>> >>)
        processed == Invoke("ProcessSubstring", <<st.rem, r.s>>)
        sp == IF at_edge THEN r.sp ELSE st.sp
    IN IF r.err # NoError
       THEN [st EXCEPT !.owner = r.owner, !.node = r.node, !.sp = sp,
                       !.err = r.err]
       ELSE IF processed.err # NoError
       THEN [st EXCEPT !.owner = r.owner, !.node = r.node,
                       !.rem = processed.rem, !.sp = sp, !.err = processed.err]
       ELSE StringParserParse(
              k + 1, string, elements,
              [owner |-> r.owner, node |-> r.node, rem |-> processed.rem,
               matched_substrings |-> Append(st.matched_substrings, r.s),
               sp |-> sp, err |-> NoError])

\* BodyPlaceholder.MatchSyntaxFreeLine
MatchSyntaxFreeLine(remaining_string) ==
  LET index == Find(remaining_string, <<"\n">>)
      line == Take(remaining_string, index + 1)
      syntax_free_node == Invoke("SetFromSrcLine", <<line>>)
      got == Invoke("GetSource", <<syntax_free_node, line, <<>>, FALSE>>)
  IN [rem |-> Drop(remaining_string, index + 1), node |-> got.node,
      err |-> got.err]

\* the two while loops of BodyPlaceholder.Match that take syntax-free lines;
\* the second one is guarded by guard, the indent_level to start with (or
\* <<>> and match_after for no condition)
SyntaxFreeLoop(remaining_string, new_node, guard, match_after) ==
  IF Invoke("MatchesStart", <<remaining_string>>)
     /\ (StartsWith(remaining_string, guard) \/ match_after)
  THEN LET line == Invoke("MatchSyntaxFreeLine", <<remaining_string>>)
       IN IF line.err # NoError
          THEN [rem |-> remaining_string, new_node |-> new_node, err |-> line.err]
          ELSE SyntaxFreeLoop(line.rem, Append(new_node, line.node), guard,
                              match_after)
  ELSE [rem |-> remaining_string, new_node |-> new_node, err |-> NoError]

\* the for loop of BodyPlaceholder.Match from the child at index (counted
\* from 0) on; st holds p, node, remaining_string, new_node and indent_level
BodyChildrenLoop(index, field_value, st) ==
  IF index >= Len(field_value) THEN st
  ELSE
    LET lines == Invoke("SyntaxFreeLoop", <<st.rem, st.new_node, <<>>, TRUE>>)
        indent_level == Spaces(Len(lines.rem) - Len(LStrip(lines.rem)))
        value == Invoke("GetValueAtIndex", <<st.p, field_value, index>>)
        r == Invoke("MatchPlaceholderListFrom", <<
               1, lines.rem, value.elements,
               [owner |-> value.p, node |-> st.node, rem |-> lines.rem,
                sp |-> <<>>, err |-> NoError]>>)
        matched == [p |-> r.owner, node |-> r.node, rem |-> r.rem,
                    new_node |-> Append(lines.new_node,
                                        GetChild(r.node, st.p.field_name, index + 1)),
                    indent_level |-> indent_level, err |-> r.err]
    IN IF lines.err # NoError
       THEN [st EXCEPT !.rem = lines.rem, !.new_node = lines.new_node,
                       !.err = lines.err]
       ELSE IF r.err # NoError THEN matched
       ELSE BodyChildrenLoop(index + 1, field_value, matched)

\* BodyPlaceholder.Match
BodyPlaceholderMatch(p, node, string) ==
  LET field_value == GetAttr(node, p.field_name)
      has_prefix == Len(p.prefix_placeholder) > 0
      prefix == IF has_prefix
                THEN Invoke("MatchPlaceholder", <<string, p, node,
                                      PhElement("prefix_placeholder", 1), <<>> >>)
                ELSE [owner |-> p, node |-> node, rem |-> string, sp |-> <<>>,
                      err |-> NoError]
      start == [p |-> prefix.owner, node |-> prefix.node, rem |-> prefix.rem,
                new_node |-> <<>>, indent_level |-> <<>>, err |-> prefix.err]
      \* enumerate(field_value) raises TypeError for a node
      children == IF prefix.err # NoError THEN start
                  ELSE IF ~IsList(field_value) THEN [start EXCEPT !.err = TypeError]
                  ELSE BodyChildrenLoop(0, field_value.items, start)
      lines == Invoke("SyntaxFreeLoop", <<children.rem, children.new_node,
                              children.indent_level, p.match_after>>)
  IN IF ~Truthy(field_value)
     THEN [p |-> p, node |-> node, s |-> <<>>, err |-> NoError]
     ELSE IF children.err # NoError
     THEN [p |-> children.p, node |-> children.node, s |-> <<>>,
           err |-> children.err]
     ELSE IF lines.err # NoError
     THEN [p |-> children.p, node |-> children.node, s |-> <<>>,
           err |-> lines.err]
     ELSE [p |-> children.p,
           node |-> [children.node EXCEPT
                       ![p.field_name] = PyList(lines.new_node)],
           s |-> ButRemaining(string, lines.rem),
           err |-> NoError]

(***************************************************************************)
(* The call of a function or method of the engine, looked up by its name.  *)
(***************************************************************************)
Invoke(method, args) ==
  CASE method = "TextPlaceholderMatch" ->
         TextPlaceholderMatch(args[1], args[2], args[3])
    [] method = "MatchTextPlaceholder" ->
         MatchTextPlaceholder(args[1], args[2])
    [] method = "MatchStartParens" ->
         MatchStartParens(args[1], args[2])
    [] method = "MatchEndParenLoop" ->
         MatchEndParenLoop(args[1], args[2], args[3])
    [] method = "MatchEndParen" ->
         MatchEndParen(args[1], args[2])
    [] method = "NumSourceMatcherMatch" ->
         NumSourceMatcherMatch(args[1], args[2])
    [] method = "NumSourceMatcherGetSource" ->
         NumSourceMatcherGetSource(args[1])
    [] method = "StringPartPlaceholderMatch" ->
         StringPartPlaceholderMatch(args[1], args[2])
    [] method = "MatchStringPart" ->
         MatchStringPart(args[1], args[2])
    [] method = "StrPartsLoop" ->
         StrPartsLoop(args[1], args[2])
    [] method = "StrSourceMatcherMatch" ->
         StrSourceMatcherMatch(args[1], args[2])
    [] method = "StrSourceMatcherGetSource" ->
         StrSourceMatcherGetSource(args[1])
    [] method = "ReMatch" ->
         ReMatch(args[1], args[2], args[3])
    [] method = "StripStartParens" ->
         StripStartParens(args[1])
    [] method = "ValidateStart" ->
         ValidateStart(args[1], args[2])
    [] method = "ProcessSubstring" ->
         ProcessSubstring(args[1], args[2])
    [] method = "FindQuoteEnd" ->
         FindQuoteEnd(args[1], args[2])
    [] method = "GetElements" ->
         GetElements(args[1], args[2])
    [] method = "ListFieldPlaceholderGetElements" ->
         ListFieldPlaceholderGetElements(args[1], args[2])
    [] method = "GetValuesFrom" ->
         GetValuesFrom(args[1], args[2], args[3])
    [] method = "GetValueAtIndex" ->
         GetValueAtIndex(args[1], args[2], args[3])
    [] method = "SetFromSrcLine" ->
         SetFromSrcLine(args[1])
    [] method = "MatchesStart" ->
         MatchesStart(args[1])
    [] method = "StartsQuote" ->
         StartsQuote(args[1])
    [] method = "GetIndentLevel" ->
         GetIndentLevel(args[1], args[2])
    [] method = "GetSource" ->
         GetSource(args[1], args[2], args[3], args[4])
    [] method = "FixSourceIndentation" ->
         FixSourceIndentation(args[1])
    [] method = "MatcherMatch" ->
         MatcherMatch(args[1], args[2])
    [] method = "MatcherGetSource" ->
         MatcherGetSource(args[1])
    [] method = "DefaultSourceMatcherMatch" ->
         DefaultSourceMatcherMatch(args[1], args[2])
    [] method = "TupleSourceMatcherMatch" ->
         TupleSourceMatcherMatch(args[1], args[2])
    [] method = "IfSourceMatcherMatch" ->
         IfSourceMatcherMatch(args[1], args[2])
    [] method = "IfSourceMatcherGetSource" ->
         IfSourceMatcherGetSource(args[1])
    [] method = "WithSourceMatcherMatch" ->
         WithSourceMatcherMatch(args[1], args[2])
    [] method = "WithSourceMatcherGetSource" ->
         WithSourceMatcherGetSource(args[1])
    [] method = "DefaultSourceMatcherGetSource" ->
         DefaultSourceMatcherGetSource(args[1])
    [] method = "MatchPlaceholder" ->
         MatchPlaceholder(args[1], args[2], args[3], args[4], args[5])
    [] method = "MatchPlaceholderListFrom" ->
         MatchPlaceholderListFrom(args[1], args[2], args[3], args[4])
    [] method = "ElementMatch" ->
         ElementMatch(args[1], args[2], args[3], args[4], args[5])
    [] method = "ElementGetSource" ->
         ElementGetSource(args[1], args[2], args[3])
    [] method = "ElementsGetSource" ->
         ElementsGetSource(args[1], args[2], args[3])
    [] method = "PlaceholderMatch" ->
         PlaceholderMatch(args[1], args[2], args[3], args[4])
    [] method = "PlaceholderGetSource" ->
         PlaceholderGetSource(args[1], args[2])
    [] method = "CompositePlaceholderMatch" ->
         CompositePlaceholderMatch(args[1], args[2], args[3], args[4])
    [] method = "StringParserParse" ->
         StringParserParse(args[1], args[2], args[3], args[4])
    [] method = "BodyPlaceholderMatch" ->
         BodyPlaceholderMatch(args[1], args[2], args[3])
    [] method = "MatchSyntaxFreeLine" ->
         MatchSyntaxFreeLine(args[1])
    [] method = "SyntaxFreeLoop" ->
         SyntaxFreeLoop(args[1], args[2], args[3], args[4])
    [] method = "BodyChildrenLoop" ->
         BodyChildrenLoop(args[1], args[2], args[3])

(***************************************************************************)
(* Inputs: a fragment is a node and a source text that Python parses to    *)
(* that node.                                                              *)
(***************************************************************************)
\* the deepest nesting of parentheses around one expression
MaxParenDepth == 2

\* the whitespace put inside a pair of parentheses
ParenSpaces == {<<>>, <<" ">>}

Fragment(node, t) == [node |-> node, text |-> t]

Atoms ==
  {Fragment(Name(<<"a">>), <<"a">>),
   Fragment(Name(<<"b">>), <<"b">>),
   Fragment(Num(1), <<"1">>),
   Fragment(Str(<<"a">>), <<"\"", "a", "\"">>)}

\* the fragments of S wrapped in up to depth pairs of parentheses, with one
\* of the given whitespaces inside each pair
RECURSIVE Parenthesized(_, _, _)
Parenthesized(S, depth, spaces) ==
  IF depth = 0 THEN S
  ELSE S \cup {Fragment(f.node, <<"(">> \o ws \o f.text \o ws \o <<")">>) :
                 f \in Parenthesized(S, depth - 1, spaces), ws \in spaces}

\* binary operations: the left operand in up to MaxParenDepth pairs of
\* parentheses, the right one in at most one
BinOps ==
  {Fragment(BinOp(l.node, Operator("Add"), r.node),
            l.text \o sep \o <<"+">> \o sep \o r.text) :
     l \in Parenthesized({f \in Atoms : f.text \in {<<"a">>, <<"1">>}},
                         MaxParenDepth, {<<>>}),
     r \in Parenthesized({f \in Atoms : f.text = <<"b">>}, 1, {<<>>}),
     sep \in {<<>>, <<" ">>}}

Attributes ==
  {Fragment(Attribute(v.node, <<"b">>), v.text \o sep \o <<".">> \o sep \o <<"b">>) :
     v \in Parenthesized({f \in Atoms : f.text = <<"a">>}, 1, {<<>>}),
     sep \in {<<>>, <<" ">>}}

ExprFragments ==
  Parenthesized(Atoms, MaxParenDepth, ParenSpaces)
    \cup Parenthesized(BinOps, 1, ParenSpaces)
    \cup Parenthesized(Attributes, 1, {<<>>})

(***************************************************************************)
(* The caller's side.  tree is the node the caller works on and text the   *)
(* source it was parsed from; holder is the matcher the caller obtained    *)
(* from GetMatcher (<<>> before); ret, out and err are what the last Match *)
(* returned, what the last GetSource returned and the exception the last   *)
(* call raised; hist lists the calls and assignments made so far.          *)
(***************************************************************************)
\* the longest sequence of calls and assignments made on one tree
MaxOps == 3

HistEntry(op, path, old, new) == [op |-> op, path |-> path, old |-> old, new |-> new]

Call(op) == HistEntry(op, <<>>, <<>>, <<>>)

\* the fields of a node that hold a child expression
ChildFields(node) ==
  CASE node.kind = "BinOp" -> {"left", "right"}
    [] node.kind = "Attribute" -> {"value"}
    [] OTHER -> {}

\* the attribute paths from node to itself and its descendants
RECURSIVE Paths(_)
Paths(node) ==
  {<<>>} \cup UNION {{<<f>> \o p : p \in Paths(node[f])} : f \in ChildFields(node)}

\* node.f1.f2... for the path <<f1, f2, ...>>
RECURSIVE NodeAt(_, _)
NodeAt(node, path) ==
  IF path = <<>> THEN node ELSE NodeAt(node[Head(path)], Tail(path))

\* node after the assignment node.f1.f2... = new
RECURSIVE SetAt(_, _, _)
SetAt(node, path, new) ==
  IF path = <<>> THEN new
  ELSE [node EXCEPT ![Head(path)] = SetAt(@, Tail(path), new)]

\* node_tree_util.NodeCopy: new nodes with the same fields and no matcher
RECURSIVE NodeCopy(_)
NodeCopy(node_to_copy) ==
  IF ~IsNode(node_to_copy) THEN node_to_copy
  ELSE [f \in DOMAIN node_to_copy |->
          IF f = "matcher" THEN <<>>
          ELSE IF f \in {"left", "op", "right", "value"}
          THEN NodeCopy(node_to_copy[f])
          ELSE node_to_copy[f]]

\* a call or assignment can follow: a matcher is held, nothing was raised
Running == Len(holder) > 0 /\ err = NoError /\ Len(hist) < MaxOps

\* no field was assigned yet and the text was matched
Unchanged ==
  /\ Len(hist) > 0
  /\ \A k \in DOMAIN hist : hist[k].op \in {"Match", "GetSource"}

InitExpr ==
  \E f \in ExprFragments :
    /\ tree = f.node
    /\ text = f.text
    /\ holder = <<>>
    /\ out = <<>>
    /\ ret = <<>>
    /\ err = NoError
    /\ hist = <<>>

\* matcher = GetMatcher(node)
CallGetMatcher ==
  /\ Len(holder) = 0
  /\ holder' = <<GetMatcher(tree, <<>>)>>
  /\ UNCHANGED <<tree, text, out, ret, err, hist>>

\* matcher.Match(text)
CallMatch ==
  /\ Running
  /\ LET returns(r) == /\ tree' = [r.node EXCEPT !.matcher = <<>>]
                       /\ holder' = r.node.matcher
                       /\ ret' = r.s
                       /\ err' = r.err
     IN returns(Invoke("MatcherMatch", <<[tree EXCEPT !.matcher = holder], text>>))
  /\ hist' = Append(hist, Call("Match"))
  /\ UNCHANGED <<text, out>>

\* matcher.GetSource()
CallGetSource ==
  /\ Running
  /\ LET returns(r) == /\ tree' = [r.node EXCEPT !.matcher = <<>>]
                       /\ holder' = r.node.matcher
                       /\ out' = r.s
                       /\ err' = r.err
     IN returns(Invoke("MatcherGetSource", <<[tree EXCEPT !.matcher = holder]>>))
  /\ hist' = Append(hist, Call("GetSource"))
  /\ UNCHANGED <<text, ret>>

\* the assignment of field of the node at path, recorded with the old and
\* the new source of the field
Assign(path, field, value, old, new) ==
  /\ tree' = SetAt(tree, path, [NodeAt(tree, path) EXCEPT ![field] = value])
  /\ hist' = Append(hist, HistEntry("Set" \o field, path, old, new))
  /\ UNCHANGED <<text, holder, out, ret, err>>

\* name.id = new
SetId ==
  /\ Running /\ Unchanged
  /\ \E path \in Paths(tree), new \in {<<"c">>, <<"d", "d">>} :
       /\ NodeAt(tree, path).kind = "Name"
       /\ Assign(path, "id", PyStr(new), NodeAt(tree, path).id.v, new)

\* attribute.attr = new
SetAttr ==
  /\ Running /\ Unchanged
  /\ \E path \in Paths(tree), new \in {<<"c">>, <<"d", "d">>} :
       /\ NodeAt(tree, path).kind = "Attribute"
       /\ Assign(path, "attr", PyStr(new), NodeAt(tree, path).attr.v, new)

\* binop.op = a new operator node
SetOp ==
  /\ Running /\ Unchanged
  /\ \E path \in Paths(tree), new \in {"Sub", "LShift", "RShift"} :
       /\ NodeAt(tree, path).kind = "BinOp"
       /\ Assign(path, "op", Operator(new),
                 ExpectedParts(NodeAt(tree, path).op.kind)[1].default,
                 ExpectedParts(new)[1].default)

\* parent.field = NodeCopy(parent.field): the child is replaced by an equal
\* node that has no matcher
ReplaceChild ==
  /\ Running /\ Unchanged
  /\ \E path \in Paths(tree) \ {<<>>} :
       /\ tree' = SetAt(tree, path, NodeCopy(NodeAt(tree, path)))
       /\ hist' = Append(hist, HistEntry("Replace", path, <<>>, <<>>))
  /\ UNCHANGED <<text, holder, out, ret, err>>

Next ==
  \/ CallGetMatcher
  \/ CallMatch
  \/ CallGetSource
  \/ SetId
  \/ SetAttr
  \/ SetOp
  \/ ReplaceChild

Spec == InitExpr /\ [][Next]_vars

(***************************************************************************)
(* Properties of the calls on expressions (Spec)                           *)
(***************************************************************************)
\* the operations of hist, in order
Ops == [k \in DOMAIN hist |-> hist[k].op]

\* the matchers of the tree: the one the caller holds and those attached to
\* the descendants
Matchers ==
  {holder[1]}
    \cup {NodeAt(tree, p).matcher[1] :
            p \in {q \in Paths(tree) \ {<<>>} : Len(NodeAt(tree, q).matcher) > 0}}

\* the parentheses that open string, whitespace between them skipped
RECURSIVE Openings(_)
Openings(string) ==
  IF Len(string) > 0 /\ string[1] \in Whitespace THEN Openings(Tail(string))
  ELSE IF Len(string) > 0 /\ string[1] = "(" THEN 1 + Openings(Tail(string))
  ELSE 0

\* the parentheses that close string, whitespace between them skipped
RECURSIVE Closings(_)
Closings(string) ==
  IF Len(string) > 0 /\ string[Len(string)] \in Whitespace
  THEN Closings(SubSeq(string, 1, Len(string) - 1))
  ELSE IF Len(string) > 0 /\ string[Len(string)] = ")"
  THEN 1 + Closings(SubSeq(string, 1, Len(string) - 1))
  ELSE 0

\* C1: for every fragment, Match(t) on a fresh matcher raises nothing and
\* GetSource() then returns exactly t
C1_UniversalRoundTrip ==
  /\ (Ops = <<"Match">> => err = NoError)
  /\ (Ops = <<"Match", "GetSource">> => err = NoError /\ out = text)

\* the one assignment of hist
TheAssignment == hist[CHOOSE k \in DOMAIN hist : hist[k].op \in {"Setid", "Setattr", "Setop"}]

\* C2: after Match(t), one assignment to a scalar field (a Name's id, an
\* Attribute's attr, a BinOp's op) and GetSource(), the result is t with the
\* text of that field replaced by the new text and all around it unchanged
C2_MutationLocality ==
  (/\ Len(hist) >= 3
   /\ hist[1].op = "Match"
   /\ hist[Len(hist)].op = "GetSource"
   /\ \E k \in 2..(Len(hist) - 1) : hist[k].op \in {"Setid", "Setattr", "Setop"}
   /\ \A k \in 2..(Len(hist) - 1) :
        hist[k].op \in {"Setid", "Setattr", "Setop", "GetSource"})
  => /\ err = NoError
     /\ \E k \in 0..Len(text) :
          LET pre == SubSeq(text, 1, k)
              post == SubSeq(text, k + Len(TheAssignment.old) + 1, Len(text))
          IN /\ text = pre \o TheAssignment.old \o post
             /\ out = pre \o TheAssignment.new \o post

\* C2 is met where the field is inside parentheses and between two texts
C2_Witness ==
  /\ Ops = <<"Match", "Setid", "GetSource">>
  /\ hist[2].path = <<"left">>
  /\ text = <<"(", "(", "a", ")", " ", "+", " ", "b", ")">>
  /\ out = <<"(", "(", "d", "d", ")", " ", "+", " ", "b", ")">>

\* C3: a second Match(t) on a matcher that matched t leaves GetSource() = t
C3_RematchIdempotent ==
  /\ (Ops = <<"Match", "Match">> => err = NoError)
  /\ (Ops = <<"Match", "Match", "GetSource">> => err = NoError /\ out = text)

\* C4: a fragment in surplus parentheses, around the whole or around its
\* leftmost sub-expression, is matched and GetSource() reproduces it
C4_ParenPreservation ==
  Openings(text) > 0
  => /\ (Ops = <<"Match">> => err = NoError)
     /\ (Ops = <<"Match", "GetSource">> => err = NoError /\ out = text)

\* C7: after Match calls that raised nothing, a matcher that is paren_wrapped
\* owns as many start as end records, and the matcher of a fragment without
\* sub-expressions owns min(openings, closings) of each
C7_ParenRecords ==
  (/\ Len(holder) > 0
   /\ err = NoError
   /\ \E k \in DOMAIN hist : hist[k].op = "Match")
  => /\ \A m \in Matchers :
          m.paren_wrapped => Len(m.start_paren_matchers) = Len(m.end_paren_matchers)
     /\ ((holder[1].paren_wrapped /\ ChildFields(tree) = {})
          => Len(holder[1].start_paren_matchers)
               = Min(Openings(text), Closings(text)))

(***************************************************************************)
(* Blocks of statements (SpecBody): the caller matches a module or a while *)
(* statement whose source has blank and comment-only lines before and      *)
(* between the statements, and regenerates it.                             *)
(***************************************************************************)
\* the most blank or comment-only lines in one gap of a block
MaxFreeLines == 1

\* blank and comment-only lines
FreeLines ==
  {<<"\n">>, <<" ", " ", "\n">>, <<"\t", "\n">>,
   <<"#", " ", "c", "\n">>, <<" ", " ", "#", "c", "\n">>, <<"\t", "#", "\n">>}

\* the texts of up to n blank or comment-only lines
RECURSIVE Gaps(_)
Gaps(n) ==
  IF n = 0 THEN {<<>>}
  ELSE Gaps(n - 1) \cup {g \o l : g \in Gaps(n - 1), l \in FreeLines}

\* a module of two expression statements
ModuleFragments ==
  {Fragment(Module(<<Expr(Name(<<"a">>), 1, TRUE), Expr(Name(<<"b">>), 2, TRUE)>>),
            before \o <<"a", "\n">> \o between \o <<"b", "\n">>) :
     before \in Gaps(MaxFreeLines), between \in Gaps(MaxFreeLines)}

\* a while statement with two statements in its body
WhileFragments ==
  {Fragment(While(Name(<<"a">>),
                  <<Pass(1, FALSE), Expr(Name(<<"b">>), 2, FALSE)>>, 3, FALSE),
            <<"w", "h", "i", "l", "e", " ", "a", ":", "\n">>
              \o before \o <<" ", " ", "p", "a", "s", "s", "\n">>
              \o between \o <<" ", " ", "b", "\n">>) :
     before \in Gaps(MaxFreeLines), between \in Gaps(MaxFreeLines)}

BodyFragments == ModuleFragments \cup WhileFragments

InitBody ==
  \E f \in BodyFragments :
    /\ tree = f.node
    /\ text = f.text
    /\ holder = <<>>
    /\ out = <<>>
    /\ ret = <<>>
    /\ err = NoError
    /\ hist = <<>>

NextBody ==
  \/ CallGetMatcher
  \/ CallMatch
  \/ CallGetSource

SpecBody == InitBody /\ [][NextBody]_vars

\* the lines of a text, each with its line break
RECURSIVE SplitLines(_)
SplitLines(string) ==
  IF string = <<>> THEN <<>>
  ELSE LET end == Find(string, <<"\n">>)
       IN IF end = -1 THEN <<string>>
          ELSE <<Take(string, end + 1)>> \o SplitLines(Drop(string, end + 1))

\* a line that holds nothing, or nothing but a comment
IsFreeLine(line) ==
  LET rest == Drop(line, LeadingCount(line, {" ", "\t"}))
  IN rest = <<"\n">> \/ (Len(rest) > 0 /\ rest[1] = "#")

\* the lines of the source of the block of tree
BlockLines ==
  IF tree.kind = "While" THEN Tail(SplitLines(text)) ELSE SplitLines(text)

\* C5: Match puts one SyntaxFreeLine into the body list per blank or
\* comment-only line of the block, at the position of the line, and keeps the
\* statements in their order; GetSource then reproduces the text, every such
\* line at its position.
C5_SyntaxFreeLines ==
  /\ (Ops = <<"Match">>
        => /\ err = NoError
           /\ Len(tree.body.items) = Len(BlockLines)
           /\ \A k \in DOMAIN tree.body.items :
                (tree.body.items[k].kind = "SyntaxFreeLine") = IsFreeLine(BlockLines[k])
           /\ \A j, k \in DOMAIN tree.body.items :
                (/\ j < k
                 /\ tree.body.items[j].kind # "SyntaxFreeLine"
                 /\ tree.body.items[k].kind # "SyntaxFreeLine")
                => tree.body.items[j].uid < tree.body.items[k].uid)
  /\ (Ops = <<"Match", "GetSource">> => err = NoError /\ out = text)

(***************************************************************************)
(* String literals (SpecStr): the caller matches a Str node, alone or as   *)
(* the first statement of a module, against its adjacent literals,         *)
(* may assign a new value to s, and regenerates the source.                *)
(***************************************************************************)
\* the most adjacent literals that make one string
MaxStrParts == 2

\* one literal: an optional prefix, a quote and the inner text a
Literals ==
  {prefix \o quote \o <<"a">> \o quote :
     prefix \in {<<>>, <<"u">>}, quote \in {<<"\"">>, <<"'">>}}

\* the strings made of up to n adjacent literals, as the value and the text
RECURSIVE AdjacentLiterals(_)
AdjacentLiterals(n) ==
  IF n = 1 THEN {[s |-> <<"a">>, text |-> l] : l \in Literals}
  ELSE AdjacentLiterals(n - 1)
         \cup {[s |-> f.s \o <<"a">>, text |-> f.text \o sep \o l] :
                 f \in AdjacentLiterals(n - 1), sep \in {<<>>, <<" ">>},
                 l \in Literals}

Strs == {Fragment(Str(f.s), f.text) : f \in AdjacentLiterals(MaxStrParts)}

\* modules whose first statement is a string
StrModules ==
  {Fragment(Module(<<Expr(f.node, 1, TRUE)>> \o rest.body),
            f.text \o <<"\n">> \o rest.text) :
     f \in {g \in Strs : Len(g.text) <= 3},
     rest \in {[body |-> <<>>, text |-> <<>>],
               [body |-> <<Expr(Name(<<"b">>), 2, TRUE)>>, text |-> <<"b", "\n">>],
               [body |-> <<Expr(Str(<<"b">>), 2, TRUE)>>,
                text |-> <<"\"", "b", "\"", "\n">>]}}

StrFragments == Parenthesized(Strs, 1, ParenSpaces) \cup StrModules

InitStr ==
  \E f \in StrFragments :
    /\ tree = f.node
    /\ text = f.text
    /\ holder = <<>>
    /\ out = <<>>
    /\ ret = <<>>
    /\ err = NoError
    /\ hist = <<>>

\* where the Str node is in tree
StrPath == IF tree.kind = "Module" THEN <<"body", "items", 1, "value">> ELSE <<>>

\* str_node.s = 'c'
SetS ==
  /\ Running /\ Unchanged
  /\ Assign(StrPath, "s", PyStr(<<"c">>), NodeAt(tree, StrPath).s.v, <<"c">>)

NextStr ==
  \/ CallGetMatcher
  \/ CallMatch
  \/ CallGetSource
  \/ SetS

SpecStr == InitStr /\ [][NextStr]_vars

\* the matcher of the Str node
StrMatcher == IF StrPath = <<>> THEN holder[1] ELSE NodeAt(tree, StrPath).matcher[1]

\* the source of the Str node: the text, or the first line of the module
StrText == IF StrPath = <<>> THEN text ELSE Take(text, Find(text, <<"\n">>))

\* the number of literals in a text whose literals hold no quote
RECURSIVE QuoteCount(_)
QuoteCount(string) ==
  IF string = <<>> THEN 0
  ELSE (IF string[1] \in {"\"", "'"} THEN 1 ELSE 0) + QuoteCount(Tail(string))

\* the length of the longest suffix of s made of characters of cs
RECURSIVE TrailingCount(_, _)
TrailingCount(s, cs) ==
  IF Len(s) > 0 /\ s[Len(s)] \in cs
  THEN 1 + TrailingCount(Take(s, Len(s) - 1), cs) ELSE 0

\* the source of the Str node with its literals replaced by one literal that
\* has the prefix and the quote of the first one and the inner text new
SingleLiteral(new) ==
  LET opening == LeadingCount(StrText, {"("} \cup Whitespace)
      closing == TrailingCount(StrText, {")"} \cup Whitespace)
      literals == Drop(StrText, opening)
      prefix == Take(literals, LeadingCount(literals, {"u", "U", "r", "R"}))
      quote == <<literals[Len(prefix) + 1]>>
  IN Take(text, opening) \o prefix \o quote \o new \o quote
       \o Drop(text, Len(StrText) - closing)

\* C6: a match of a Str node against n adjacent literals records n parts and
\* n - 1 separators; GetSource on the unchanged node gives the text back, and
\* after an assignment to s a single literal with the prefix and the quote of
\* the first part and the new value.
C6_AdjacentStrings ==
  /\ (Ops = <<"Match">>
        => /\ err = NoError
           /\ Len(StrMatcher.quote_parts) * 2 = QuoteCount(StrText)
           /\ Len(StrMatcher.separators) + 1 = Len(StrMatcher.quote_parts))
  /\ (Ops = <<"Match", "GetSource">> => err = NoError /\ out = text)
  /\ (Ops = <<"Match", "Sets", "GetSource">>
        => err = NoError /\ out = SingleLiteral(hist[2].new))

(***************************************************************************)
(* One TextPlaceholder, matched and rendered (SpecText)                    *)
(***************************************************************************)
\* the longest input of a placeholder's Match
MaxTextLen == 3

\* the most calls of Match on one placeholder
MaxTextMatches == 2

\* the placeholders: .* , a\( , \s* , \s*:\n , \(? and a|a\(
TextPlaceholders ==
  {TextPlaceholder(Star(Dot), <<"d">>),
   TextPlaceholder(Lit(<<"a", "(">>), <<"a", "(">>),
   TextPlaceholder(Star(Ws), <<" ">>),
   TextPlaceholder(Cat(<<Star(Ws), Lit(<<":">>), Nl>>), <<":", "\n">>),
   TextPlaceholder(Opt(Lit(<<"(">>)), <<>>),
   TextPlaceholder(Alt(<<Lit(<<"a">>), Lit(<<"a", "(">>)>>), <<"a">>)}

TextAlphabet == {"a", "(", " ", "\n", ":", "#"}

\* the strings over TextAlphabet of length n
RECURSIVE TextsOfLen(_)
TextsOfLen(n) ==
  IF n = 0 THEN {<<>>}
  ELSE {<<c>> \o t : c \in TextAlphabet, t \in TextsOfLen(n - 1)}

TextInputs == UNION {TextsOfLen(n) : n \in 0..MaxTextLen}

InitText ==
  \E p \in TextPlaceholders :
    /\ tree = PyNone
    /\ text = <<>>
    /\ holder = <<p>>
    /\ out = <<>>
    /\ ret = <<>>
    /\ err = NoError
    /\ hist = <<>>

\* the calls of Match made so far
TextMatches == {k \in DOMAIN hist : hist[k].op = "Match"}

\* placeholder.Match(None, string); the call is recorded with its input and,
\* when nothing was raised, with what it returned
TextMatch ==
  /\ Len(hist) < MaxOps
  /\ Cardinality(TextMatches) < MaxTextMatches
  /\ \E string \in TextInputs :
       LET returns(r) ==
             /\ holder' = <<r.p>>
             /\ ret' = r.s
             /\ err' = r.err
             /\ hist' = Append(hist, HistEntry("Match", <<>>, string,
                                 IF r.err = NoError THEN <<r.s>> ELSE <<>>))
       IN /\ text' = string
          /\ returns(Invoke("TextPlaceholderMatch", <<holder[1], string, FALSE>>))
  /\ UNCHANGED <<tree, out>>

\* placeholder.GetSource(None)
TextGetSource ==
  /\ Len(hist) < MaxOps
  /\ out' = TextPlaceholderGetSource(holder[1])
  /\ err' = NoError
  /\ hist' = Append(hist, Call("GetSource"))
  /\ UNCHANGED <<tree, text, holder, ret>>

NextText == TextMatch \/ TextGetSource

SpecText == InitText /\ [][NextText]_vars

\* w is in the language of the pattern (re.DOTALL not set)
RECURSIVE InLang(_, _)
InLang(regex, w) ==
  CASE regex.t = "lit" -> w = regex.s
    [] regex.t = "cls" -> Len(w) = 1 /\ w[1] \in regex.cs
    [] regex.t = "ws" -> Len(w) = 1 /\ w[1] \in Whitespace
    [] regex.t = "nl" -> w = <<"\n">>
    [] regex.t = "any" -> Len(w) = 1 /\ w[1] # "\n"
    [] regex.t = "seq" ->
         IF Len(regex.rs) = 0 THEN w = <<>>
         ELSE \E n \in 0..Len(w) :
                /\ InLang(regex.rs[1], Take(w, n))
                /\ InLang(Cat(Tail(regex.rs)), Drop(w, n))
    [] regex.t = "alt" -> \E k \in DOMAIN regex.rs : InLang(regex.rs[k], w)
    [] regex.t = "opt" -> w = <<>> \/ InLang(regex.r, w)
    [] regex.t = "star" ->
         \/ w = <<>>
         \/ \E n \in 1..Len(w) :
              InLang(regex.r, Take(w, n)) /\ InLang(regex, Drop(w, n))

\* the pattern matches at position 0 of string
MatchesAtStart(regex, string) ==
  \E n \in 0..Len(string) : InLang(regex, Take(string, n))

\* the calls of Match that raised nothing
TextRecorded == {k \in TextMatches : Len(hist[k].new) > 0}

\* the text the last successful Match returned, or the default
LastRecorded ==
  IF TextRecorded = {} THEN holder[1].default
  ELSE hist[CHOOSE k \in TextRecorded : \A j \in TextRecorded : j <= k].new[1]

\* C8: Match raises BadlySpecifiedTemplateError exactly when the pattern does
\* not match at position 0 of its input, and otherwise returns and records a
\* prefix of the input that the pattern matches; GetSource returns the text
\* of the last Match that succeeded, and the default when none has.
C8_TextPlaceholderContract ==
  /\ TextPlaceholderGetSource(holder[1]) = LastRecorded
  /\ (Len(hist) > 0 /\ hist[Len(hist)].op = "Match"
        => /\ (err = NoError) = MatchesAtStart(holder[1].regex, text)
           /\ err \in {NoError, BadlySpecifiedTemplateError}
           /\ err = NoError
                => /\ StartsWith(text, ret)
                   /\ InLang(holder[1].regex, ret)
                   /\ holder[1].matched_text = <<ret>>)
  /\ (Len(hist) > 0 /\ hist[Len(hist)].op = "GetSource"
        => err = NoError /\ out = LastRecorded)

\* a Match succeeded, a later one raised, and GetSource rendered the text
\* of the first
C8_Witness ==
  /\ Ops = <<"Match", "Match", "GetSource">>
  /\ Len(hist[1].new) > 0
  /\ Len(hist[2].new) = 0
  /\ Len(out) > 0
  /\ out = hist[1].new[1]
  /\ out # holder[1].default

(***************************************************************************)
(* The module-level functions GetSource and GetMatcher called on one field *)
(* (SpecApi).  tree is the field: a scalar, an expression or a statement   *)
(* that is not part of a module.                                           *)
(***************************************************************************)
ApiScalars ==
  {Fragment(PyNone, <<>>), Fragment(PyStr(<<"a", "b">>), <<>>),
   Fragment(PyInt(0), <<>>), Fragment(PyInt(12), <<>>), Fragment(PyInt(-3), <<>>)}

ApiExpressions ==
  {Fragment(Name(<<"a">>), <<"a">>),
   Fragment(Name(<<"a">>), <<"(", "a", ")">>),
   Fragment(Num(1), <<"1">>),
   Fragment(Str(<<"a">>), <<"'", "a", "'">>),
   Fragment(Str(<<"a", "b">>), <<"\"", "a", "\"", " ", "\"", "b", "\"">>),
   Fragment(BinOp(Name(<<"a">>), Operator("Add"), Name(<<"b">>)),
            <<"a", " ", "+", "b">>)}

\* statements with and without the module_node attribute
ApiStatements ==
  UNION {{Fragment(Pass(1, mn), <<"p", "a", "s", "s", "\n">>),
          Fragment(Expr(Name(<<"a">>), 1, mn), <<"a", "\n">>),
          Fragment(While(Name(<<"a">>), <<Pass(2, mn)>>, 1, mn),
                   <<"w", "h", "i", "l", "e", " ", "a", ":", "\n",
                     " ", " ", "p", "a", "s", "s", "\n">>)} : mn \in BOOLEAN}

ApiFields == ApiScalars \cup ApiExpressions \cup ApiStatements

\* a text that is the source of none of the fields
OtherText == <<"z", "z">>

InitApi ==
  \E f \in ApiFields :
    /\ tree = f.node
    /\ text = f.text
    /\ holder = <<>>
    /\ out = <<>>
    /\ ret = <<>>
    /\ err = NoError
    /\ hist = <<>>

\* a call of the API, recorded with its arguments and the field before it
ApiCall(op, txt, assume_no_indent) ==
  [op |-> op, text |-> txt, assume_no_indent |-> assume_no_indent,
   before |-> tree]

ApiRunning == err = NoError /\ Len(hist) < MaxOps

\* source_match.GetSource(field, text, assume_no_indent=...), with no text,
\* the source of the field or another text
ApiGetSource ==
  /\ ApiRunning
  /\ \E txt \in {<<>>, text, OtherText}, assume_no_indent \in BOOLEAN :
       LET returns(r) == /\ tree' = r.node
                         /\ out' = r.s
                         /\ err' = r.err
       IN /\ returns(Invoke("GetSource", <<tree, txt, <<>>, assume_no_indent>>))
          /\ hist' = Append(hist, ApiCall("GetSource", txt, assume_no_indent))
  /\ UNCHANGED <<text, holder, ret>>

\* matcher = source_match.GetMatcher(node)
ApiGetMatcher ==
  /\ ApiRunning
  /\ IsNode(tree)
  /\ holder' = <<GetMatcher(tree, <<>>)>>
  /\ hist' = Append(hist, ApiCall("GetMatcher", <<>>, FALSE))
  /\ UNCHANGED <<tree, text, out, ret, err>>

\* node.s = 'c' or node.id = 'c'
ApiAssign ==
  /\ ApiRunning
  /\ tree.kind \in {"Str", "Name"}
  /\ tree' = IF tree.kind = "Str" THEN [tree EXCEPT !.s = PyStr(<<"c">>)]
             ELSE [tree EXCEPT !.id = PyStr(<<"c">>)]
  /\ hist' = Append(hist, ApiCall("Assign", <<>>, FALSE))
  /\ UNCHANGED <<text, holder, out, ret, err>>

NextApi == ApiGetSource \/ ApiGetMatcher \/ ApiAssign

SpecApi == InitApi /\ [][NextApi]_vars

\* the last call made
LastCall == hist[Len(hist)]

\* str(value) for the ints of ApiScalars
StrOfInt(v) ==
  CASE v = 0 -> <<"0">>
    [] v = 12 -> <<"1", "2">>
    [] v = -3 -> <<"-", "3">>

\* C9: GetSource(field) is '' for None, the value for a str and str(value)
\* for an int; for a node with an attached matcher it is that matcher's
\* GetSource(), whatever text is supplied, and the node and the matcher's
\* recorded state are as before; only a node without a matcher gets a fresh
\* matcher attached, which matches the supplied text.
C9_GetSourceDispatch ==
  (Len(hist) > 0 /\ LastCall.op = "GetSource")
    => LET field == LastCall.before
       IN CASE field.kind = "None" -> err = NoError /\ out = <<>> /\ tree = field
            [] field.kind = "str" -> err = NoError /\ out = field.v /\ tree = field
            [] field.kind = "int" ->
                 err = NoError /\ out = StrOfInt(field.v) /\ tree = field
            [] OTHER ->
                 IF Len(field.matcher) > 0
                 THEN /\ err = NoError
                      /\ out = MatcherGetSource(field).s
                      /\ tree = field
                 ELSE /\ Len(tree.matcher) > 0
                      /\ (LastCall.text = text /\ Len(hist) = 1
                            => err = NoError /\ out = text)
                      /\ (LastCall.text = OtherText => err # NoError)

\* C10: GetSource on a statement without a matcher, given no text and
\* assume_no_indent false, raises ValueError when the statement has no
\* module_node; with assume_no_indent true or with a module_node it raises
\* no ValueError.
C10_StatementNeedsModule ==
  (/\ Len(hist) > 0
   /\ LastCall.op = "GetSource"
   /\ IsNode(LastCall.before)
   /\ IsStmt(LastCall.before)
   /\ Len(LastCall.before.matcher) = 0
   /\ LastCall.text = <<>>)
    => (err = ValueError)
         = (~LastCall.assume_no_indent /\ ~LastCall.before.module_node)

\* the matcher has no match recorded
Unmatched(m) ==
  /\ m.start_paren_matchers = <<>>
  /\ m.end_paren_matchers = <<>>
  /\ CASE m.kind = "NumSourceMatcher" -> m.matched_num = <<>>
       [] m.kind = "StrSourceMatcher" -> m.quote_parts = <<>> /\ m.original_s = <<>>
       [] OTHER -> ~m.matched

\* C11 as stated: GetMatcher on a node with an attached matcher returns that
\* matcher, match state included.
C11_GetMatcherReturnsAttached ==
  (/\ Len(hist) > 0
   /\ LastCall.op = "GetMatcher"
   /\ Len(tree.matcher) > 0)
    => holder = tree.matcher

\* C11, amended: GetMatcher builds a new matcher with no match recorded,
\* whether or not a matcher is attached to the node, and leaves the node and
\* its attached matcher as they were.
C11_GetMatcherBuildsFresh ==
  (Len(hist) > 0 /\ LastCall.op = "GetMatcher")
    => /\ Len(holder) = 1
       /\ Unmatched(holder[1])
       /\ tree = LastCall.before

\* GetMatcher was called on a node whose attached matcher holds a match
C11_Witness ==
  /\ Len(hist) > 1
  /\ LastCall.op = "GetMatcher"
  /\ Len(tree.matcher) > 0
  /\ ~Unmatched(tree.matcher[1])
  /\ Len(holder) = 1

(***************************************************************************)
(* A matched string whose value is assigned and rendered again and again   *)
(* (SpecStrEdit)                                                           *)
(***************************************************************************)
\* the most calls and assignments after GetMatcher
MaxStrCalls == 5

\* the values assigned to s: the values of the fragments and another one
StrValues == {<<"a">>, <<"a", "a">>, <<"c">>}

InitStrEdit ==
  \E f \in Parenthesized(Strs, 1, ParenSpaces) :
    /\ tree = f.node
    /\ text = f.text
    /\ holder = <<>>
    /\ out = <<>>
    /\ ret = <<>>
    /\ err = NoError
    /\ hist = <<>>

\* matcher.Match(text), once, recorded with the value of s it matched
StrMatch ==
  /\ Len(holder) > 0
  /\ hist = <<>>
  /\ LET returns(r) == /\ tree' = [r.node EXCEPT !.matcher = <<>>]
                       /\ holder' = r.node.matcher
                       /\ ret' = r.s
                       /\ err' = r.err
     IN returns(Invoke("StrSourceMatcherMatch", <<[tree EXCEPT !.matcher = holder], text>>))
  /\ hist' = <<HistEntry("Match", <<>>, tree.s.v, <<>>)>>
  /\ UNCHANGED <<text, out>>

StrEditing == hist # <<>> /\ err = NoError /\ Len(hist) < MaxStrCalls

\* node.s = value
StrAssign ==
  /\ StrEditing
  /\ \E value \in StrValues :
       /\ tree' = [tree EXCEPT !.s = PyStr(value)]
       /\ hist' = Append(hist, HistEntry("Sets", <<>>, tree.s.v, value))
  /\ UNCHANGED <<text, holder, out, ret, err>>

\* matcher.GetSource()
StrRender ==
  /\ StrEditing
  /\ LET returns(r) == /\ tree' = [r.node EXCEPT !.matcher = <<>>]
                       /\ holder' = r.node.matcher
                       /\ out' = r.s
                       /\ err' = r.err
     IN returns(Invoke("StrSourceMatcherGetSource", <<[tree EXCEPT !.matcher = holder]>>))
  /\ hist' = Append(hist, Call("GetSource"))
  /\ UNCHANGED <<text, ret>>

NextStrEdit == CallGetMatcher \/ StrMatch \/ StrAssign \/ StrRender

SpecStrEdit == InitStrEdit /\ [][NextStrEdit]_vars

\* C18: a matched Str renders its current s: the matched text while s is the
\* value that was matched, whatever was assigned and rendered in between,
\* and else one literal that holds the current s.
C18_StrRendersCurrentValue ==
  (Len(hist) > 1 /\ hist[Len(hist)].op = "GetSource")
    => /\ err = NoError
       /\ out = IF tree.s.v = hist[1].old THEN text ELSE SingleLiteral(tree.s.v)

(***************************************************************************)
(* A matched number whose value is assigned and rendered (SpecNum)         *)
(***************************************************************************)
\* the most calls and assignments after GetMatcher
MaxNumCalls == 4

\* a Num whose n is a long
NumLong(n) == [Num(n) EXCEPT !.n = PyLong(n)]

\* decimal, signed, hexadecimal, octal and long literals
NumFragments ==
  {Fragment(Num(1), <<"1">>),
   Fragment(Num(12), <<"1", "2">>),
   Fragment(Num(-1), <<"-", "1">>),
   Fragment(Num(31), <<"0", "x", "1", "f">>),
   Fragment(Num(255), <<"0", "x", "F", "F">>),
   Fragment(Num(255), <<"0", "X", "f", "f">>),
   Fragment(Num(15), <<"0", "1", "7">>),
   Fragment(Num(0), <<"0">>),
   Fragment(NumLong(1), <<"1", "L">>),
   Fragment(NumLong(12), <<"1", "2", "l">>)}

\* the values assigned to n
NumValues == {1, 2, 255}

InitNum ==
  \E f \in NumFragments :
    /\ tree = f.node
    /\ text = f.text
    /\ holder = <<>>
    /\ out = <<>>
    /\ ret = <<>>
    /\ err = NoError
    /\ hist = <<>>

\* matcher.Match(text), once, recorded with the value of n it matched
NumMatch ==
  /\ Len(holder) > 0
  /\ hist = <<>>
  /\ LET returns(r) == /\ tree' = [r.node EXCEPT !.matcher = <<>>]
                       /\ holder' = r.node.matcher
                       /\ ret' = r.s
                       /\ err' = r.err
     IN returns(Invoke("NumSourceMatcherMatch", <<[tree EXCEPT !.matcher = holder], text>>))
  /\ hist' = <<HistEntry("Match", <<>>, tree.n.v, <<>>)>>
  /\ UNCHANGED <<text, out>>

NumEditing == hist # <<>> /\ err = NoError /\ Len(hist) < MaxNumCalls

\* node.n = value
NumAssign ==
  /\ NumEditing
  /\ \E value \in NumValues :
       /\ tree' = [tree EXCEPT !.n = PyInt(value)]
       /\ hist' = Append(hist, HistEntry("Setn", <<>>, tree.n.v, value))
  /\ UNCHANGED <<text, holder, out, ret, err>>

\* matcher.GetSource()
NumRender ==
  /\ NumEditing
  /\ LET returns(r) == /\ tree' = [r.node EXCEPT !.matcher = <<>>]
                       /\ holder' = r.node.matcher
                       /\ out' = r.s
                       /\ err' = r.err
     IN returns(Invoke("NumSourceMatcherGetSource", <<[tree EXCEPT !.matcher = holder]>>))
  /\ hist' = Append(hist, Call("GetSource"))
  /\ UNCHANGED <<text, ret>>

NextNum == CallGetMatcher \/ NumMatch \/ NumAssign \/ NumRender

SpecNum == InitNum /\ [][NextNum]_vars

\* str(value) for the values of NumValues
DecimalOf(value) ==
  CASE value = 1 -> <<"1">>
    [] value = 2 -> <<"2">>
    [] value = 255 -> <<"2", "5", "5">>

\* C19: a matched Num renders the lexeme it matched, sign, base and suffix
\* included, while n is the value that was matched, and the plain decimal
\* str(n) once n is another value.
C19_NumRendering ==
  /\ (Len(hist) > 0 => err = NoError)
  /\ (Len(hist) > 1 /\ hist[Len(hist)].op = "GetSource"
        => out = IF tree.n.v = hist[1].old THEN text ELSE DecimalOf(tree.n.v))

(***************************************************************************)
(* Further properties of the calls on expressions (Spec)                   *)
(***************************************************************************)
\* an assignment that changed the source of a field was made
Reassigned == \E k \in DOMAIN hist : hist[k].op \in {"Setid", "Setattr", "Setop"}

\* C15: a Match of a text that is not the source of the node raises
\* BadlySpecifiedTemplateError, at whatever depth the mismatch is found; no
\* call raises an exception of another type, and no mismatch goes unnoticed.
C15_OnlyTemplateErrors ==
  /\ err \in {NoError, BadlySpecifiedTemplateError}
  /\ (Len(hist) > 0 /\ hist[Len(hist)].op = "Match" /\ Reassigned
        => err = BadlySpecifiedTemplateError)

\* C16: Match returns the prefix of its input that it consumed, here the
\* whole text, parentheses around the node included, and GetSource called
\* right after it returns the same string.
C16_MatchReturnsConsumed ==
  /\ (Ops = <<"Match">> /\ err = NoError => ret = text)
  /\ (Ops = <<"Match", "GetSource">> /\ err = NoError => out = ret)

(***************************************************************************)
(* One field placeholder matched against a text for a node (SpecField)     *)
(***************************************************************************)
\* the nodes: while statements, whose test is a node and whose body and
\* orelse are lists
FieldNodes ==
  {[While(test, body, 3, FALSE) EXCEPT !.orelse = PyList(orelse)] :
     test \in {Name(<<"a">>), Name(<<"b">>), Num(1)},
     body \in {<<Pass(1, FALSE)>>, <<Expr(Name(<<"b">>), 1, FALSE)>>},
     orelse \in {<<>>, <<Pass(2, FALSE)>>}}

\* a text placeholder for the literal x
TextX == TextPlaceholder(Lit(<<"x">>), <<"x">>)

\* placeholders for the fields, with and without a text before the field
FieldPlaceholders ==
  UNION {{FieldPlaceholder(field, before),
          ListFieldPlaceholder(field, before, <<>>, <<>>, FALSE),
          ListFieldPlaceholder(field, <<>>, <<>>, before, FALSE),
          BodyPlaceholder(field, <<>>, <<>>, before, FALSE)} :
           field \in {"test", "body", "orelse"}, before \in {<<>>, <<TextX>>}}

\* the texts: an optional x and the source of a test or of a body
FieldTexts ==
  {before \o source :
     before \in {<<>>, <<"x">>},
     source \in {<<"a">>, <<"b">>, <<"1">>, <<"p", "a", "s", "s", "\n">>,
                 <<"b", "\n">>}}

InitField ==
  \E p \in FieldPlaceholders, node \in FieldNodes, string \in FieldTexts :
    /\ tree = node
    /\ text = string
    /\ holder = <<p>>
    /\ out = <<>>
    /\ ret = <<>>
    /\ err = NoError
    /\ hist = <<>>

\* placeholder.Match(node, text)
FieldMatch ==
  /\ hist = <<>>
  /\ LET returns(r) == /\ tree' = r.node
                       /\ holder' = <<r.p>>
                       /\ ret' = r.s
                       /\ err' = r.err
     IN returns(Invoke("PlaceholderMatch", <<holder[1], tree, text, <<>> >>))
  /\ hist' = <<[op |-> "Match", before |-> holder[1], node |-> tree]>>
  /\ UNCHANGED <<text, out>>

\* placeholder.GetSource(node) after a match
FieldGetSource ==
  /\ Len(hist) = 1
  /\ err = NoError
  /\ LET returns(r) == /\ tree' = r.node
                       /\ holder' = <<r.p>>
                       /\ out' = r.s
                       /\ err' = r.err
     IN returns(Invoke("PlaceholderGetSource", <<holder[1], tree>>))
  /\ hist' = Append(hist, [op |-> "GetSource", before |-> holder[1], node |-> tree])
  /\ UNCHANGED <<text, ret>>

NextField == FieldMatch \/ FieldGetSource

SpecField == InitField /\ [][NextField]_vars

\* the placeholder is of a class that does not fit the value of its field
Misapplied(p, node) ==
  IF p.kind = "FieldPlaceholder" THEN IsList(node[p.field_name])
  ELSE Truthy(node[p.field_name]) /\ ~IsList(node[p.field_name])

\* C13: the Match of a FieldPlaceholder whose field holds a list, and of a
\* ListFieldPlaceholder or BodyPlaceholder whose field holds a non-empty
\* value that is no list, raises ValueError before any text is consumed.
C13_MisappliedRaisesValueError ==
  (Ops = <<"Match">> /\ Misapplied(hist[1].before, hist[1].node))
    => /\ err = ValueError
       /\ holder[1] = hist[1].before
       /\ tree = hist[1].node

(***************************************************************************)
(* SpecRegistry: the table _matchers and the construction of a matcher for *)
(* a node of every kind the library creates.                               *)
(***************************************************************************)
KeyError == "KeyError"

\* _matchers: the entry of each node class, with the classes of the parts a
\* template factory returns (or a DefaultSourceMatcher subclass passes on)
matchers ==
  {[kind |-> "Add", entry |-> "get_Add_expected_parts", parts |-> <<"TextPlaceholder">>],
   [kind |-> "alias", entry |-> "get_alias_expected_parts", parts |-> <<"FieldPlaceholder", "FieldPlaceholder">>],
   [kind |-> "And", entry |-> "get_And_expected_parts", parts |-> <<"TextPlaceholder">>],
   [kind |-> "arguments", entry |-> "get_arguments_expected_parts", parts |-> <<"ArgsDefaultsPlaceholder", "FieldPlaceholder", "FieldPlaceholder">>],
   [kind |-> "Assert", entry |-> "get_Assert_expected_parts", parts |-> <<"TextPlaceholder", "FieldPlaceholder", "FieldPlaceholder", "TextPlaceholder">>],
   [kind |-> "Assign", entry |-> "get_Assign_expected_parts", parts |-> <<"TextPlaceholder", "SeparatedListFieldPlaceholder", "TextPlaceholder", "FieldPlaceholder", "TextPlaceholder">>],
   [kind |-> "Attribute", entry |-> "get_Attribute_expected_parts", parts |-> <<"FieldPlaceholder", "TextPlaceholder", "FieldPlaceholder">>],
   [kind |-> "AugAssign", entry |-> "get_AugAssign_expected_parts", parts |-> <<"TextPlaceholder", "FieldPlaceholder", "TextPlaceholder", "FieldPlaceholder", "TextPlaceholder", "FieldPlaceholder", "TextPlaceholder">>],
   [kind |-> "BinOp", entry |-> "get_BinOp_expected_parts", parts |-> <<"FieldPlaceholder", "TextPlaceholder", "FieldPlaceholder", "TextPlaceholder", "FieldPlaceholder">>],
   [kind |-> "BitAnd", entry |-> "get_BitAnd_expected_parts", parts |-> <<"TextPlaceholder">>],
   [kind |-> "BitOr", entry |-> "get_BitOr_expected_parts", parts |-> <<"TextPlaceholder">>],
   [kind |-> "BitXor", entry |-> "get_BitXor_expected_parts", parts |-> <<"TextPlaceholder">>],
   [kind |-> "BoolOp", entry |-> "BoolOpSourceMatcher", parts |-> <<>>],
   [kind |-> "Break", entry |-> "get_Break_expected_parts", parts |-> <<"TextPlaceholder">>],
   [kind |-> "Call", entry |-> "get_Call_expected_parts", parts |-> <<"FieldPlaceholder", "TextPlaceholder", "ArgsKeywordsPlaceholder", "FieldPlaceholder", "TextPlaceholder">>],
   [kind |-> "ClassDef", entry |-> "get_ClassDef_expected_parts", parts |-> <<"ListFieldPlaceholder", "TextPlaceholder", "FieldPlaceholder", "TextPlaceholder", "SeparatedListFieldPlaceholder", "TextPlaceholder", "BodyPlaceholder">>],
   [kind |-> "Compare", entry |-> "get_Compare_expected_parts", parts |-> <<"FieldPlaceholder", "TextPlaceholder", "OpsComparatorsPlaceholder">>],
   [kind |-> "comprehension", entry |-> "get_comprehension_expected_parts", parts |-> <<"TextPlaceholder", "FieldPlaceholder", "TextPlaceholder", "FieldPlaceholder", "ListFieldPlaceholder">>],
   [kind |-> "Continue", entry |-> "get_Continue_expected_parts", parts |-> <<"TextPlaceholder">>],
   [kind |-> "Delete", entry |-> "get_Delete_expected_parts", parts |-> <<"TextPlaceholder", "ListFieldPlaceholder", "TextPlaceholder">>],
   [kind |-> "Dict", entry |-> "get_Dict_expected_parts", parts |-> <<"TextPlaceholder", "KeysValuesPlaceholder", "TextPlaceholder">>],
   [kind |-> "DictComp", entry |-> "get_DictComp_expected_parts", parts |-> <<"TextPlaceholder", "FieldPlaceholder", "TextPlaceholder", "FieldPlaceholder", "TextPlaceholder", "ListFieldPlaceholder", "TextPlaceholder">>],
   [kind |-> "Div", entry |-> "get_Div_expected_parts", parts |-> <<"TextPlaceholder">>],
   [kind |-> "Eq", entry |-> "get_Eq_expected_parts", parts |-> <<"TextPlaceholder">>],
   [kind |-> "ExceptHandler", entry |-> "get_ExceptHandler_expected_parts", parts |-> <<"TextPlaceholder", "FieldPlaceholder", "FieldPlaceholder", "TextPlaceholder", "BodyPlaceholder">>],
   [kind |-> "Expr", entry |-> "get_Expr_expected_parts", parts |-> <<"TextPlaceholder", "FieldPlaceholder", "TextPlaceholder">>],
   [kind |-> "FloorDiv", entry |-> "get_FloorDiv_expected_parts", parts |-> <<"TextPlaceholder">>],
   [kind |-> "For", entry |-> "get_For_expected_parts", parts |-> <<"TextPlaceholder", "FieldPlaceholder", "TextPlaceholder", "FieldPlaceholder", "TextPlaceholder", "BodyPlaceholder", "BodyPlaceholder">>],
   [kind |-> "FunctionDef", entry |-> "get_FunctionDef_expected_parts", parts |-> <<"BodyPlaceholder", "TextPlaceholder", "FieldPlaceholder", "TextPlaceholder", "FieldPlaceholder", "TextPlaceholder", "BodyPlaceholder">>],
   [kind |-> "GeneratorExp", entry |-> "get_GeneratorExp_expected_parts", parts |-> <<"FieldPlaceholder", "TextPlaceholder", "ListFieldPlaceholder">>],
   [kind |-> "Global", entry |-> "get_Global_expected_parts", parts |-> <<"TextPlaceholder", "SeparatedListFieldPlaceholder", "TextPlaceholder">>],
   [kind |-> "Gt", entry |-> "get_Gt_expected_parts", parts |-> <<"TextPlaceholder">>],
   [kind |-> "GtE", entry |-> "get_GtE_expected_parts", parts |-> <<"TextPlaceholder">>],
   [kind |-> "If", entry |-> "IfSourceMatcher", parts |-> <<>>],
   [kind |-> "IfExp", entry |-> "get_IfExp_expected_parts", parts |-> <<"FieldPlaceholder", "TextPlaceholder", "FieldPlaceholder", "TextPlaceholder", "FieldPlaceholder">>],
   [kind |-> "Import", entry |-> "get_Import_expected_parts", parts |-> <<"TextPlaceholder", "SeparatedListFieldPlaceholder", "TextPlaceholder">>],
   [kind |-> "ImportFrom", entry |-> "get_ImportFrom_expected_parts", parts |-> <<"TextPlaceholder", "FieldPlaceholder", "TextPlaceholder", "SeparatedListFieldPlaceholder", "TextPlaceholder">>],
   [kind |-> "In", entry |-> "get_In_expected_parts", parts |-> <<"TextPlaceholder">>],
   [kind |-> "Index", entry |-> "get_Index_expected_parts", parts |-> <<"FieldPlaceholder">>],
   [kind |-> "Invert", entry |-> "get_Invert_expected_parts", parts |-> <<"TextPlaceholder">>],
   [kind |-> "Is", entry |-> "get_Is_expected_parts", parts |-> <<"TextPlaceholder">>],
   [kind |-> "IsNot", entry |-> "get_IsNot_expected_parts", parts |-> <<"TextPlaceholder">>],
   [kind |-> "keyword", entry |-> "get_keyword_expected_parts", parts |-> <<"FieldPlaceholder", "TextPlaceholder", "FieldPlaceholder">>],
   [kind |-> "Lambda", entry |-> "get_Lambda_expected_parts", parts |-> <<"TextPlaceholder", "FieldPlaceholder", "TextPlaceholder", "FieldPlaceholder">>],
   [kind |-> "List", entry |-> "get_List_expected_parts", parts |-> <<"TextPlaceholder", "SeparatedListFieldPlaceholder", "TextPlaceholder">>],
   [kind |-> "ListComp", entry |-> "get_ListComp_expected_parts", parts |-> <<"TextPlaceholder", "FieldPlaceholder", "TextPlaceholder", "ListFieldPlaceholder", "TextPlaceholder">>],
   [kind |-> "LShift", entry |-> "get_LShift_expected_parts", parts |-> <<"TextPlaceholder">>],
   [kind |-> "Lt", entry |-> "get_Lt_expected_parts", parts |-> <<"TextPlaceholder">>],
   [kind |-> "LtE", entry |-> "get_LtE_expected_parts", parts |-> <<"TextPlaceholder">>],
   [kind |-> "Mod", entry |-> "get_Mod_expected_parts", parts |-> <<"TextPlaceholder">>],
   [kind |-> "Module", entry |-> "get_Module_expected_parts", parts |-> <<"BodyPlaceholder">>],
   [kind |-> "Mult", entry |-> "get_Mult_expected_parts", parts |-> <<"TextPlaceholder">>],
   [kind |-> "Name", entry |-> "get_Name_expected_parts", parts |-> <<"FieldPlaceholder">>],
   [kind |-> "Not", entry |-> "get_Not_expected_parts", parts |-> <<"TextPlaceholder">>],
   [kind |-> "NotEq", entry |-> "get_NotEq_expected_parts", parts |-> <<"TextPlaceholder">>],
   [kind |-> "NotIn", entry |-> "get_NotIn_expected_parts", parts |-> <<"TextPlaceholder">>],
   [kind |-> "Num", entry |-> "NumSourceMatcher", parts |-> <<>>],
   [kind |-> "Or", entry |-> "get_Or_expected_parts", parts |-> <<"TextPlaceholder">>],
   [kind |-> "Pass", entry |-> "get_Pass_expected_parts", parts |-> <<"TextPlaceholder">>],
   [kind |-> "Pow", entry |-> "get_Pow_expected_parts", parts |-> <<"TextPlaceholder">>],
   [kind |-> "Print", entry |-> "get_Print_expected_parts", parts |-> <<"TextPlaceholder", "FieldPlaceholder", "ListFieldPlaceholder", "TextPlaceholder">>],
   [kind |-> "Raise", entry |-> "get_Raise_expected_parts", parts |-> <<"TextPlaceholder", "FieldPlaceholder", "TextPlaceholder">>],
   [kind |-> "Return", entry |-> "get_Return_expected_parts", parts |-> <<"TextPlaceholder", "FieldPlaceholder", "TextPlaceholder">>],
   [kind |-> "RShift", entry |-> "get_RShift_expected_parts", parts |-> <<"TextPlaceholder">>],
   [kind |-> "Set", entry |-> "get_Set_expected_parts", parts |-> <<"TextPlaceholder", "SeparatedListFieldPlaceholder", "TextPlaceholder">>],
   [kind |-> "SetComp", entry |-> "get_SetComp_expected_parts", parts |-> <<"TextPlaceholder", "FieldPlaceholder", "TextPlaceholder", "ListFieldPlaceholder", "TextPlaceholder">>],
   [kind |-> "Slice", entry |-> "get_Slice_expected_parts", parts |-> <<"FieldPlaceholder", "TextPlaceholder", "FieldPlaceholder", "TextPlaceholder", "FieldPlaceholder">>],
   [kind |-> "Str", entry |-> "StrSourceMatcher", parts |-> <<>>],
   [kind |-> "Sub", entry |-> "get_Sub_expected_parts", parts |-> <<"TextPlaceholder">>],
   [kind |-> "Subscript", entry |-> "get_Subscript_expected_parts", parts |-> <<"FieldPlaceholder", "TextPlaceholder", "FieldPlaceholder", "TextPlaceholder">>],
   [kind |-> "SyntaxFreeLine", entry |-> "get_SyntaxFreeLine_expected_parts", parts |-> <<"FieldPlaceholder", "TextPlaceholder">>],
   [kind |-> "TryExcept", entry |-> "get_TryExcept_expected_parts", parts |-> <<"TextPlaceholder", "BodyPlaceholder", "ListFieldPlaceholder", "BodyPlaceholder">>],
   [kind |-> "TryFinally", entry |-> "TryFinallySourceMatcher", parts |-> <<"BodyPlaceholder", "TextPlaceholder", "BodyPlaceholder">>],
   [kind |-> "Tuple", entry |-> "TupleSourceMatcher", parts |-> <<"TextPlaceholder", "SeparatedListFieldPlaceholder", "TextPlaceholder">>],
   [kind |-> "UAdd", entry |-> "get_UAdd_expected_parts", parts |-> <<"TextPlaceholder">>],
   [kind |-> "UnaryOp", entry |-> "get_UnaryOp_expected_parts", parts |-> <<"FieldPlaceholder", "TextPlaceholder", "FieldPlaceholder">>],
   [kind |-> "USub", entry |-> "get_USub_expected_parts", parts |-> <<"TextPlaceholder">>],
   [kind |-> "While", entry |-> "get_While_expected_parts", parts |-> <<"TextPlaceholder", "FieldPlaceholder", "TextPlaceholder", "BodyPlaceholder">>],
   [kind |-> "With", entry |-> "WithSourceMatcher", parts |-> <<>>],
   [kind |-> "Yield", entry |-> "get_Yield_expected_parts", parts |-> <<"TextPlaceholder", "FieldPlaceholder">>]}

\* the subclasses of Placeholder
PlaceholderClasses ==
  {"TextPlaceholder", "FieldPlaceholder", "ListFieldPlaceholder",
   "SeparatedListFieldPlaceholder", "BodyPlaceholder",
   "ArgsDefaultsPlaceholder", "ArgsKeywordsPlaceholder",
   "KeysValuesPlaceholder", "OpsComparatorsPlaceholder"}

\* the entries that are matcher classes, called with (node, starting_parens)
MatcherClasses ==
  {"BoolOpSourceMatcher", "IfSourceMatcher", "NumSourceMatcher",
   "StrSourceMatcher", "TupleSourceMatcher", "TryFinallySourceMatcher",
   "WithSourceMatcher"}

\* the matcher classes that derive from DefaultSourceMatcher
DefaultSubclasses == {"TupleSourceMatcher", "TryFinallySourceMatcher"}

\* the expression contexts GetCtx creates
CtxKinds == {"Load", "Store", "Del", "Param"}

\* the node classes of the library: the keys of the table and the contexts
NodeKinds == {e.kind : e \in matchers} \cup CtxKinds

\* the validation with a previous_was_string that is never reset: it rejects
\* every template with two TextPlaceholders, adjacent or not
DefaultSourceMatcherInitNoReset(expected_parts) ==
  IF Cardinality({k \in DOMAIN expected_parts :
                    expected_parts[k] = "TextPlaceholder"}) > 1
    THEN ValueError
  ELSE NoError

\* DefaultSourceMatcher.__init__: the error of the validation of the parts
DefaultSourceMatcherInit(expected_parts) ==
  IF \E k \in DOMAIN expected_parts : expected_parts[k] \notin PlaceholderClasses
    THEN ValueError
  ELSE IF \E k \in DOMAIN expected_parts :
            /\ k > 1
            /\ expected_parts[k] = "TextPlaceholder"
            /\ expected_parts[k - 1] = "TextPlaceholder"
    THEN ValueError
  ELSE NoError

\* GetMatcher(node) by the table: the class of the matcher and the error
RegistryGetMatcher(node) ==
  IF \A e \in matchers : e.kind # node.kind
    THEN [matcher |-> <<>>, err |-> KeyError]
  ELSE LET parts_or_matcher == CHOOSE e \in matchers : e.kind = node.kind
           class == IF parts_or_matcher.entry \in MatcherClasses
                      THEN parts_or_matcher.entry
                      ELSE "DefaultSourceMatcher"
           validated == class \in DefaultSubclasses \cup {"DefaultSourceMatcher"}
           error == IF validated
                      THEN DefaultSourceMatcherInit(parts_or_matcher.parts)
                      ELSE NoError
       IN IF error # NoError
            THEN [matcher |-> <<>>, err |-> error]
            ELSE [matcher |-> <<[kind |-> class, node_kind |-> node.kind,
                                 expected_parts |-> parts_or_matcher.parts]>>,
                  err |-> NoError]

MaxRegistryCalls == 2

InitRegistry ==
  \E k \in NodeKinds :
    /\ tree = [kind |-> k]
    /\ text = <<>>
    /\ holder = <<>>
    /\ out = <<>>
    /\ ret = <<>>
    /\ err = NoError
    /\ hist = <<>>

\* matcher = GetMatcher(node)
RegistryCall ==
  /\ Len(hist) < MaxRegistryCalls
  /\ LET r == RegistryGetMatcher(tree)
     IN /\ holder' = r.matcher
        /\ err' = r.err
  /\ hist' = Append(hist, [op |-> "GetMatcher", node |-> tree])
  /\ UNCHANGED <<tree, text, out, ret>>

NextRegistry == RegistryCall

SpecRegistry == InitRegistry /\ [][NextRegistry]_vars

WithSourceMatcher(is_compound_with) ==
  SourceMatcher("WithSourceMatcher", <<>>)
    @@ [is_compound_with |-> is_compound_with, starting_with |-> TRUE]

\* the With nodes of the matched statement  with a, b: pass
CompoundWith(uid, body) ==
  [With(Name(<<"a">>),
        <<[With(Name(<<"b">>), body, uid + 1, TRUE)
             EXCEPT !.matcher = <<WithSourceMatcher(FALSE)>>]>>,
        uid, TRUE)
     EXCEPT !.matcher = <<WithSourceMatcher(TRUE)>>]

\* a while statement with an else block
WhileElse(test, body, orelse, uid) ==
  [While(test, body, uid, TRUE) EXCEPT !.orelse = PyList(orelse)]

\* the modules: new statements, which carry their module, in the blocks of
\* compound statements
IndentModules ==
  {Module(<<Pass(1, TRUE), Expr(Name(<<"a">>), 2, TRUE)>>),
   Module(<<While(Name(<<"a">>), <<Pass(2, TRUE), Pass(3, TRUE)>>, 1, TRUE),
            Pass(4, TRUE)>>),
   Module(<<WhileElse(Name(<<"a">>), <<Pass(2, TRUE)>>, <<Pass(3, TRUE)>>, 1),
            Pass(4, TRUE)>>),
   Module(<<TryFinally(<<Pass(2, TRUE)>>, <<Pass(3, TRUE)>>, 1, TRUE),
            Pass(4, TRUE)>>),
   Module(<<With(Name(<<"a">>), <<Pass(2, TRUE)>>, 1, TRUE), Pass(3, TRUE)>>),
   Module(<<Pass(1, TRUE), CompoundWith(2, <<Pass(4, TRUE)>>), Pass(5, TRUE)>>),
   Module(<<While(Name(<<"a">>),
                  <<CompoundWith(2, <<Pass(4, TRUE)>>), Pass(5, TRUE)>>,
                  1, TRUE),
            Pass(6, TRUE)>>)}

\* the paths to the statements of a node: a step names a list field and an
\* index in its list
RECURSIVE StmtPaths(_)
StmtPaths(node) ==
  LET fields == StmtListFields(node.kind)
  IN UNION {UNION {{<<[field |-> fields[f].field, index |-> k]>> \o p :
                      p \in {<<>>} \cup StmtPaths(node[fields[f].field].items[k])}
                   : k \in DOMAIN node[fields[f].field].items}
            : f \in DOMAIN fields}

RECURSIVE StmtAt(_, _)
StmtAt(node, path) ==
  IF path = <<>> THEN node
  ELSE StmtAt(node[Head(path).field].items[Head(path).index], Tail(path))

RECURSIVE SetStmtAt(_, _, _)
SetStmtAt(node, path, new) ==
  IF path = <<>> THEN new
  ELSE [node EXCEPT ![Head(path).field].items[Head(path).index] =
                      SetStmtAt(@, Tail(path), new)]

MaxIndentCalls == 2

InitIndent ==
  \E module \in IndentModules :
    /\ tree = module
    /\ text = <<>>
    /\ holder = <<>>
    /\ out = <<>>
    /\ ret = <<>>
    /\ err = NoError
    /\ hist = <<>>

IndentRunning == err = NoError /\ Len(hist) < MaxIndentCalls

\* node_tree_util.GetIndentLevel(module, node) for a statement of the
\* module; holder keeps the visitor of the call as the walk left it
IndentGetLevel ==
  /\ IndentRunning
  /\ \E path \in StmtPaths(tree) :
       LET returns(r) == /\ ret' = <<r.level>>
                         /\ err' = r.err
       IN /\ returns(Invoke("GetIndentLevel", <<tree, StmtAt(tree, path)>>))
          /\ holder' = <<IndentLevelVisit(tree, StmtAt(tree, path).uid,
                                          IndentLevelVisitor)>>
          /\ hist' = Append(hist, [op |-> "GetIndentLevel", path |-> path,
                                   before |-> tree])
  /\ UNCHANGED <<tree, text, out>>

\* source_match.GetSource(node) for a simple statement of the module: a
\* statement without a matcher gets one and FixSourceIndentation matches it
\* against its indented default source
IndentGetSource ==
  /\ IndentRunning
  /\ \E path \in StmtPaths(tree) :
       /\ StmtAt(tree, path).kind \in {"Pass", "Expr"}
       /\ LET returns(r) == /\ tree' = SetStmtAt(tree, path, r.node)
                            /\ out' = r.s
                            /\ err' = r.err
          IN returns(Invoke("GetSource", <<StmtAt(tree, path), <<>>, <<>>, FALSE>>))
       /\ hist' = Append(hist, [op |-> "GetSource", path |-> path,
                                before |-> tree])
  /\ UNCHANGED <<text, holder, ret>>

NextIndent == IndentGetLevel \/ IndentGetSource

SpecIndent == InitIndent /\ [][NextIndent]_vars

\* a With node whose matcher has is_compound_with: the next with follows on
\* the same line
IsCompoundWith(node) ==
  node.kind = "With" /\ Len(node.matcher) > 0 /\ node.matcher[1].is_compound_with

\* the number of constructs whose blocks enclose the statement at the path,
\* the with statements of one line counting as one
RECURSIVE EnclosingBlocks(_, _)
EnclosingBlocks(node, path) ==
  IF path = <<>> THEN 0
  ELSE (IF node.kind = "Module" \/ IsCompoundWith(node) THEN 0 ELSE 1)
         + EnclosingBlocks(node[Head(path).field].items[Head(path).index],
                           Tail(path))

\* C12: the source of a statement that FixSourceIndentation has matched
\* starts with exactly two spaces for each construct whose body, orelse or
\* finalbody encloses the statement, in every kind of block.
C12_FixSourceIndentation ==
  (hist # <<>> /\ LastCall.op = "GetSource"
     /\ StmtAt(LastCall.before, LastCall.path).matcher = <<>>)
    => /\ err = NoError
       /\ LeadingCount(out, {" "}) = 2 * EnclosingBlocks(tree, LastCall.path)
       /\ StmtAt(tree, LastCall.path).matcher # <<>>

\* the paths to the statements of the list that holds the statement at path
Siblings(module, path) ==
  {q \in StmtPaths(module) :
     /\ Len(q) = Len(path)
     /\ SubSeq(q, 1, Len(q) - 1) = SubSeq(path, 1, Len(path) - 1)
     /\ q[Len(q)].field = path[Len(path)].field}

\* C20: the walk of GetIndentLevel leaves the counter as it found it, 0 for
\* the module, and reports every statement of one list at the same level,
\* a with statement whose matcher has is_compound_with included.
C20_IndentCounterBalanced ==
  (hist # <<>> /\ LastCall.op = "GetIndentLevel")
    => /\ err = NoError
       /\ holder[1].current_indent = 0
       /\ \A q \in Siblings(tree, LastCall.path) :
            GetIndentLevel(tree, StmtAt(tree, q)).level = ret[1]

(***************************************************************************)
(* SpecList: a list placeholder matched against the source of its list and *)
(* rendered again, with elements removed from the end of the list between. *)
(***************************************************************************)
\* create_node.FunctionDef, with the fields the decorator list needs
FunctionDef(name, decorator_list, uid) ==
  [kind |-> "FunctionDef", name |-> PyStr(name),
   decorator_list |-> PyList(decorator_list), body |-> PyList(<<Pass(uid + 1, FALSE)>>),
   matcher |-> <<>>, uid |-> uid, module_node |-> FALSE]

\* create_node.List
List(elts) == [kind |-> "List", elts |-> PyList(elts), matcher |-> <<>>]

\* the placeholder of get_FunctionDef_expected_parts for the decorators
DecoratorListPlaceholder ==
  BodyPlaceholder("decorator_list",
                  <<TextPlaceholder(Cat(<<BlankStar, Lit(<<"@">>)>>), <<"@">>)>>,
                  <<TextPlaceholder(Nl, <<"\n">>)>>,
                  <<>>, FALSE)

\* the placeholder of get_List_expected_parts for the elements
EltsPlaceholder ==
  SeparatedListFieldPlaceholder(
    "elts", TextPlaceholder(Cat(<<Star(Ws), Lit(<<",">>), Star(Ws)>>), <<",", " ">>))

\* the sources of two decorators, each after some blanks, with an optional
\* comment line before or between them
DecoratorTexts ==
  {first \o dec[1] \o between \o dec[2] :
     first \in {<<>>, <<"#", "c", "\n">>},
     between \in {<<>>, <<"#", "c", "\n">>, <<" ", "#", "c", "\n">>},
     dec \in {<<b1 \o <<"@", "a", "\n">>, b2 \o <<"@", "b", "\n">>>> :
                b1 \in {<<>>, <<" ">>}, b2 \in {<<>>, <<" ">>, <<"\t">>}}}

\* the sources of three elements with their separators
EltsTexts ==
  {<<"a">> \o s1 \o <<"b">> \o s2 \o <<"a">> :
     s1 \in {<<",">>, <<",", " ">>, <<" ", ",">>},
     s2 \in {<<",">>, <<",", " ">>, <<",", "\n", " ">>}}

ListInputs ==
  {[p |-> DecoratorListPlaceholder,
    node |-> FunctionDef(<<"f">>, <<Name(<<"a">>), Name(<<"b">>)>>, 1),
    text |-> t] : t \in DecoratorTexts}
  \cup
  {[p |-> EltsPlaceholder,
    node |-> List(<<Name(<<"a">>), Name(<<"b">>), Name(<<"a">>)>>),
    text |-> t] : t \in EltsTexts}

MaxListCalls == 4

InitList ==
  \E input \in ListInputs :
    /\ tree = input.node
    /\ text = input.text
    /\ holder = <<input.p>>
    /\ out = <<>>
    /\ ret = <<>>
    /\ err = NoError
    /\ hist = <<>>

\* placeholder.Match(node, text)
ListMatch ==
  /\ hist = <<>>
  /\ LET returns(r) == /\ tree' = r.node
                       /\ holder' = <<r.p>>
                       /\ ret' = r.s
                       /\ err' = r.err
     IN returns(Invoke("PlaceholderMatch", <<holder[1], tree, text, <<>> >>))
  /\ hist' = <<[op |-> "Match", before |-> holder[1], node |-> tree]>>
  /\ UNCHANGED <<text, out>>

ListMatched == hist # <<>> /\ err = NoError /\ Len(hist) < MaxListCalls

\* placeholder.GetSource(node) after the match
ListGetSource ==
  /\ ListMatched
  /\ LET returns(r) == /\ tree' = r.node
                       /\ holder' = <<r.p>>
                       /\ out' = r.s
                       /\ err' = r.err
     IN returns(Invoke("PlaceholderGetSource", <<holder[1], tree>>))
  /\ hist' = Append(hist, [op |-> "GetSource", before |-> holder[1], node |-> tree])
  /\ UNCHANGED <<text, ret>>

\* getattr(node, field_name).pop(): the last element leaves the list
ListRemoveLast ==
  /\ ListMatched
  /\ Len(tree[holder[1].field_name].items) > 1
  /\ tree' = [tree EXCEPT ![holder[1].field_name].items = SubSeq(@, 1, Len(@) - 1)]
  /\ hist' = Append(hist, [op |-> "RemoveLast", before |-> holder[1], node |-> tree])
  /\ UNCHANGED <<text, holder, out, ret, err>>

NextList == ListMatch \/ ListGetSource \/ ListRemoveLast

SpecList == InitList /\ [][NextList]_vars

\* C17: after the Match of a list field, GetSource emits around every
\* element of the list as it stands the text that was matched around it:
\* the matched text itself, a syntax-free line that Match inserted
\* included, and the beginning of it once elements were removed from the
\* end of the list.
C17_PerElementSeparators ==
  (hist # <<>> /\ LastCall.op = "GetSource")
    => /\ err = NoError
       /\ StartsWith(ret, out)
       /\ (\A k \in DOMAIN hist : hist[k].op # "RemoveLast") => out = ret
       /\ (\E k \in DOMAIN hist : hist[k].op = "RemoveLast") => out # ret

(***************************************************************************)
(* SpecCopy: a TextPlaceholder and the placeholder its Copy() returns,     *)
(* both matched against the same text.                                     *)
(***************************************************************************)
MaxCopyLen == 2

CopyAlphabet == {"a", "#", ";", "\n", " "}

\* the strings over CopyAlphabet of length up to MaxCopyLen
CopyTexts == UNION {[1..n -> CopyAlphabet] : n \in 0..MaxCopyLen}

\* the patterns of separators, of which the list placeholders take copies
CopyPlaceholders ==
  {TextPlaceholder(Nl, <<"\n">>),
   TextPlaceholder(Star(Ws), <<" ">>),
   TextPlaceholder(Cat(<<Star(Ws), Lit(<<";">>), Star(Ws)>>), <<";", " ">>),
   TextPlaceholder(Cat(<<Star(Ws), Lit(<<"a">>), Nl>>), <<"a", "\n">>)}

InitCopy ==
  \E p \in CopyPlaceholders, string \in CopyTexts :
    /\ tree = PyNone
    /\ text = string
    /\ holder = <<p>>
    /\ out = <<>>
    /\ ret = <<>>
    /\ err = NoError
    /\ hist = <<>>

\* placeholder.Match(None, text) and copy.Match(None, text): k is 1 for the
\* placeholder and 2 for its copy
CopyMatch ==
  \E k \in DOMAIN holder :
    /\ \A j \in DOMAIN hist : hist[j] # [op |-> "Match", who |-> k]
    /\ LET returns(r) == /\ holder' = [holder EXCEPT ![k] = r.p]
                         /\ ret' = r.s
                         /\ err' = r.err
       IN returns(Invoke("TextPlaceholderMatch", <<holder[k], text, FALSE>>))
    /\ hist' = Append(hist, [op |-> "Match", who |-> k])
    /\ UNCHANGED <<tree, text, out>>

\* copy = placeholder.Copy()
CopyCopy ==
  /\ Len(holder) = 1
  /\ holder' = Append(holder, TextPlaceholderCopy(holder[1]))
  /\ err' = NoError
  /\ hist' = Append(hist, [op |-> "Copy", who |-> 1])
  /\ UNCHANGED <<tree, text, out, ret>>

NextCopy == CopyMatch \/ CopyCopy

SpecCopy == InitCopy /\ [][NextCopy]_vars

\* C26: the placeholder that Copy() returns has no recorded text and the
\* default of the placeholder it was copied from, and it accepts the same
\* strings with the same matched prefix: its pattern is the transformed
\* pattern of the original, transformed once.
C26_CopyMatchesAlike ==
  Len(holder) = 2
    => /\ holder[2].default = holder[1].default
       /\ LastCall.op = "Copy" => holder[2].matched_text = <<>>
       /\ ReMatch(holder[2].regex, text, FALSE) = ReMatch(holder[1].regex, text, FALSE)

(***************************************************************************)
(* SpecQuote: _FindQuoteEnd on the strings over quotes, backslashes and a  *)
(* letter.                                                                 *)
(***************************************************************************)
MaxQuoteLen == 4

QuoteAlphabet == {"'", "\\", "a"}

QuoteStrings == UNION {[1..n -> QuoteAlphabet] : n \in 0..MaxQuoteLen}

QuoteTypes == {<<"'">>, <<"'", "'", "'">>}

InitQuote ==
  \E string \in QuoteStrings, quote_type \in QuoteTypes :
    /\ tree = PyNone
    /\ text = string
    /\ holder = <<quote_type>>
    /\ out = <<>>
    /\ ret = <<>>
    /\ err = NoError
    /\ hist = <<>>

\* _FindQuoteEnd(text, quote_type)
QuoteFind ==
  /\ hist = <<>>
  /\ LET returns(index) == ret' = <<index>>
     IN returns(Invoke("FindQuoteEnd", <<text, holder[1]>>))
  /\ hist' = <<[op |-> "FindQuoteEnd"]>>
  /\ UNCHANGED <<tree, text, holder, out, err>>

NextQuote == QuoteFind

SpecQuote == InitQuote /\ [][NextQuote]_vars

\* the number of consecutive backslashes that end just before index i
\* (counted from 0)
BackslashRun(string, i) ==
  CHOOSE k \in 0..i :
    /\ \A j \in (i - k + 1)..i : string[j] = "\\"
    /\ k = i \/ string[i - k] # "\\"

\* the indices at which the quote occurs after an even number of backslashes
QuoteEnds(string, quote_type) ==
  {i \in 0..(Len(string) - Len(quote_type)) :
     /\ SubSeq(string, i + 1, i + Len(quote_type)) = quote_type
     /\ BackslashRun(string, i) % 2 = 0}

MaxLineLen == 3

LineAlphabet == {" ", "\t", "#", "c"}

\* the lines of up to MaxLineLen characters, with their newline
LineTexts ==
  UNION {{line \o <<"\n">> : line \in [1..n -> LineAlphabet]} : n \in 0..MaxLineLen}

InitLine ==
  \E line \in LineTexts :
    /\ tree = SyntaxFreeLine(PyNone, 0, 1)
    /\ text = line
    /\ holder = <<>>
    /\ out = <<>>
    /\ ret = <<>>
    /\ err = NoError
    /\ hist = <<>>

\* node.SetFromSrcLine(line)
LineSetFromSrcLine ==
  /\ hist = <<>>
  /\ IF MatchesStart(text)
     THEN LET returns(node) == tree' = node
          IN returns(Invoke("SetFromSrcLine", <<text>>)) /\ err' = NoError
     ELSE tree' = tree /\ err' = ValueError
  /\ hist' = <<[op |-> "SetFromSrcLine"]>>
  /\ UNCHANGED <<text, holder, out, ret>>

\* GetSource(node, text=line): the node gets its matcher, which matches the
\* line, and the source of the matcher is returned
LineGetSource ==
  /\ Len(hist) = 1
  /\ err = NoError
  /\ LET returns(r) == /\ tree' = r.node
                       /\ out' = r.s
                       /\ err' = r.err
     IN returns(Invoke("GetSource", <<tree, text, <<>>, FALSE>>))
  /\ hist' = Append(hist, [op |-> "GetSource"])
  /\ UNCHANGED <<text, holder, ret>>

NextLine == LineSetFromSrcLine \/ LineGetSource

SpecLine == InitLine /\ [][NextLine]_vars

\* C28: for a line that MatchesStart accepts, SetFromSrcLine sets the node
\* so that full_line is the line without its newline when there is a
\* comment and '' when there is none, and the matcher of the node matched
\* against the line emits the line.
C28_SyntaxFreeLineRoundTrip ==
  (hist # <<>> /\ MatchesStart(text))
    => /\ err = NoError
       /\ full_line(tree) = IF \E k \in DOMAIN text : text[k] = "#"
                            THEN SubSeq(text, 1, Len(text) - 1)
                            ELSE <<>>
       /\ Len(hist) = 2 => out = text

(***************************************************************************)
(* SpecRetry: calls of GetSource on one field, repeated after a call has   *)
(* raised.                                                                 *)
(***************************************************************************)
MaxRetryCalls == 3

InitRetry == InitApi

\* source_match.GetSource(field, text, assume_no_indent=...), by a caller
\* that catches what the call raises and goes on
RetryGetSource ==
  /\ Len(hist) < MaxRetryCalls
  /\ \E txt \in {<<>>, text}, assume_no_indent \in BOOLEAN :
       LET returns(r) == /\ tree' = r.node
                         /\ out' = r.s
                         /\ err' = r.err
       IN /\ returns(Invoke("GetSource", <<tree, txt, <<>>, assume_no_indent>>))
          /\ hist' = Append(hist, ApiCall("GetSource", txt, assume_no_indent))
  /\ UNCHANGED <<text, holder, ret>>

NextRetry == RetryGetSource

SpecRetry == InitRetry /\ [][NextRetry]_vars

\* the call asks for the source of a statement that has no matcher and no
\* module_node, gives no text and does not assume no indent
NeedsModule(call) ==
  /\ IsNode(call.before)
  /\ IsStmt(call.before)
  /\ Len(call.before.matcher) = 0
  /\ ~call.before.module_node
  /\ call.text = <<>>
  /\ ~call.assume_no_indent

\* C30: a GetSource that raises ValueError for a statement without
\* module_node leaves the node as it was, with no matcher attached, and the
\* same call made again raises ValueError again.
C30_FailedGetSourceLeavesNode ==
  /\ (hist # <<>> /\ NeedsModule(LastCall))
       => err = ValueError /\ tree = LastCall.before
  /\ (Len(hist) > 1 /\ NeedsModule(hist[Len(hist) - 1])
        /\ LastCall.text = <<>> /\ ~LastCall.assume_no_indent)
       => err = ValueError

(***************************************************************************)
(* SpecBlock: the end of a block.  A while statement with one statement in *)
(* its body is matched against a text that goes on after the block, by its *)
(* matcher and by a BodyPlaceholder with match_after false or true.        *)
(***************************************************************************)
MaxTrailingLines == 2

WhileHeader == <<"w", "h", "i", "l", "e", " ", "a", ":", "\n">>

\* the lines after the statement: blank lines, comments and a statement
TrailingLines ==
  {<<"\n">>, <<" ", " ", "\n">>, <<"#", "c", "\n">>, <<" ", "#", "c", "\n">>,
   <<" ", " ", "#", "c", "\n">>, <<" ", " ", " ", "#", "c", "\n">>, <<"b", "\n">>}

RECURSIVE Trailing(_)
Trailing(n) ==
  IF n = 0 THEN {<<>>}
  ELSE Trailing(n - 1) \cup {t \o l : t \in Trailing(n - 1), l \in TrailingLines}

BlockTexts ==
  {WhileHeader \o indent \o <<"p", "a", "s", "s", "\n">> \o after :
     indent \in {<<" ", " ">>, <<"\t">>}, after \in Trailing(MaxTrailingLines)}

InitBlock ==
  \E string \in BlockTexts :
    /\ tree = While(Name(<<"a">>), <<Pass(1, FALSE)>>, 2, FALSE)
    /\ text = string
    /\ holder = <<>>
    /\ out = <<>>
    /\ ret = <<>>
    /\ err = NoError
    /\ hist = <<>>

\* the text of the block, after the line of the while
BlockText == Drop(text, Len(WhileHeader))

\* GetMatcher(node).Match(text)
BlockMatcherMatch ==
  /\ hist = <<>>
  /\ LET returns(r) == /\ tree' = [r.node EXCEPT !.matcher = <<>>]
                       /\ holder' = r.node.matcher
                       /\ ret' = r.s
                       /\ err' = r.err
     IN returns(Invoke("MatcherMatch",
                       <<[tree EXCEPT !.matcher = <<GetMatcher(tree, <<>>)>>], text>>))
  /\ hist' = <<[op |-> "Match", match_after |-> FALSE]>>
  /\ UNCHANGED <<text, out>>

\* BodyPlaceholder('body', match_after=...).Match(node, text of the block)
BlockPlaceholderMatch ==
  /\ hist = <<>>
  /\ \E match_after \in BOOLEAN :
       /\ LET returns(r) == /\ tree' = r.node
                            /\ holder' = <<r.p>>
                            /\ ret' = r.s
                            /\ err' = r.err
          IN returns(Invoke("BodyPlaceholderMatch",
                            <<BodyPlaceholder("body", <<>>, <<>>, <<>>, match_after),
                              tree, BlockText>>))
       /\ hist' = <<[op |-> "BodyMatch", match_after |-> match_after]>>
  /\ UNCHANGED <<text, out>>

NextBlock == BlockMatcherMatch \/ BlockPlaceholderMatch

SpecBlock == InitBlock /\ [][NextBlock]_vars

\* the indentation of the statement of the block
BlockIndent == Take(BlockText, LeadingCount(BlockText, {" ", "\t"}))

\* the number of lines at the head of lines that the block takes in: blank
\* or comment-only lines that start with the indentation, or any such line
\* with match_after
RECURSIVE TakenLines(_, _, _)
TakenLines(lines, indent, match_after) ==
  IF lines # <<>> /\ IsFreeLine(Head(lines))
       /\ (match_after \/ StartsWith(Head(lines), indent))
  THEN 1 + TakenLines(Tail(lines), indent, match_after)
  ELSE 0

\* C24: with match_after false the block takes in the blank and
\* comment-only lines after its last statement that start with the
\* indentation of that statement, up to the first line that does not; the
\* lines from there on are not consumed, not returned by Match and not added
\* to the body.  With match_after true it takes in every blank or
\* comment-only line that follows.
C24_EndOfBlock ==
  hist # <<>>
    => LET lines == Tail(SplitLines(BlockText))
           taken == TakenLines(lines, BlockIndent, hist[1].match_after)
           block == Join(SubSeq(SplitLines(BlockText), 1, 1 + taken))
       IN /\ err = NoError
          /\ Len(tree.body.items) = 1 + taken
          /\ \A k \in 2..Len(tree.body.items) :
               tree.body.items[k].kind = "SyntaxFreeLine"
          /\ ret = IF hist[1].op = "Match" THEN WhileHeader \o block ELSE block

(***************************************************************************)
(* SpecBoolOp: create_node.BoolOp on alternating operators and values.     *)
(* An operator is given as a string or as an operator node; an operator    *)
(* node carries the identity of its object in obj; obj 0 is an object      *)
(* made by the call itself, which is no other object.                      *)
(***************************************************************************)
MaxBoolOps == 3

And(obj) == [kind |-> "And", obj |-> obj]

Or(obj) == [kind |-> "Or", obj |-> obj]

\* op_dict[operator]() of BoolOpMap: a new object at every call
BoolOpMap(operator) ==
  IF operator.v = <<"a", "n", "d">> THEN And(0) ELSE Or(0)

\* op == op_or_value on two operator nodes, which define no __eq__
SameObject(a, b) == "obj" \in DOMAIN a /\ a.obj # 0 /\ a = b

AstBoolOp(op, values) == [kind |-> "BoolOp", op |-> op, values |-> values]

RECURSIVE BoolOp(_, _)
RECURSIVE BoolOpLoop(_, _, _, _)
BoolOpLoop(values, op, op_next, alternating_ops_values) ==
  IF alternating_ops_values = <<>>
  THEN AstBoolOp(IF op = <<>> THEN PyNone ELSE op[1], values)
  ELSE LET popped == Head(alternating_ops_values)
           rest == Tail(alternating_ops_values)
       IN IF op_next
          THEN LET op_or_value == IF popped.kind = "str" THEN BoolOpMap(popped)
                                  ELSE popped
               IN IF op = <<>>
                  THEN BoolOpLoop(values, <<op_or_value>>, FALSE, rest)
                  ELSE IF SameObject(op[1], op_or_value)
                  THEN BoolOpLoop(values, op, TRUE, rest)
                  ELSE IF op[1].kind = "And"
                  THEN BoolOp(AstBoolOp(op[1], values), <<op_or_value>> \o rest)
                  ELSE AstBoolOp(Or(0),
                         Append(SubSeq(values, 1, Len(values) - 1),
                                BoolOp(values[Len(values)], <<op_or_value>> \o rest)))
          ELSE BoolOpLoop(Append(values, popped), op, TRUE, rest)

BoolOp(left, alternating_ops_values) ==
  BoolOpLoop(<<left>>, <<>>, TRUE, alternating_ops_values)

\* the operators a caller passes: strings, and operator nodes, of which
\* And(1) may be passed more than once
BoolOperators ==
  {PyStr(<<"a", "n", "d">>), PyStr(<<"o", "r">>), And(1), And(2), Or(3)}

BoolOperand(k) == Name(<<<<"a", "b", "c", "d">>[k]>>)

BoolOpArgs ==
  UNION {{[i \in 1..(2 * n) |->
             IF i % 2 = 1 THEN ops[(i + 1) \div 2] ELSE BoolOperand(1 + i \div 2)] :
            ops \in [1..n -> BoolOperators]} : n \in 1..MaxBoolOps}

InitBoolOp ==
  \E args \in BoolOpArgs :
    /\ tree = BoolOperand(1)
    /\ text = <<>>
    /\ holder = args
    /\ out = <<>>
    /\ ret = <<>>
    /\ err = NoError
    /\ hist = <<>>

\* create_node.BoolOp(left, *alternating_ops_values)
BoolOpCall ==
  /\ hist = <<>>
  /\ ret' = <<BoolOp(tree, holder)>>
  /\ hist' = <<[op |-> "BoolOp"]>>
  /\ UNCHANGED <<tree, text, holder, out, err>>

NextBoolOp == BoolOpCall

SpecBoolOp == InitBoolOp /\ [][NextBoolOp]_vars

\* the operator named by an argument
OperatorName(o) == IF o.kind = "str" THEN BoolOpMap(o).kind ELSE o.kind

\* the operands of left op1 v1 op2 v2 ... cut at every `or`
RECURSIVE OrOperands(_, _)
OrOperands(group, args) ==
  IF args = <<>> THEN <<group>>
  ELSE IF OperatorName(args[1]) = "Or"
  THEN <<group>> \o OrOperands(<<args[2]>>, SubSeq(args, 3, Len(args)))
  ELSE OrOperands(Append(group, args[2]), SubSeq(args, 3, Len(args)))

AndOperand(group) ==
  IF Len(group) = 1 THEN group[1]
  ELSE [kind |-> "BoolOp", op |-> "And", values |-> group]

\* the tree of the parser for left op1 v1 op2 v2 ...
Parsed(left, args) ==
  LET groups == OrOperands(<<left>>, args)
  IN IF Len(groups) = 1 THEN AndOperand(groups[1])
     ELSE [kind |-> "BoolOp", op |-> "Or",
           values |-> [i \in DOMAIN groups |-> AndOperand(groups[i])]]

\* a tree without the identities of its operator nodes
RECURSIVE Shape(_)
Shape(node) ==
  IF node.kind = "BoolOp"
  THEN [kind |-> "BoolOp", op |-> node.op.kind,
        values |-> [i \in DOMAIN node.values |-> Shape(node.values[i])]]
  ELSE node

\* C21: BoolOp(left, op1, v1, op2, v2, ...) builds the tree of the parser
\* for `left op1 v1 op2 v2 ...`: `and` binds tighter than `or`, and the
\* operands joined by the same operator are the values, in order, of one
\* BoolOp node.
C21_BoolOpAsParsed ==
  hist # <<>> => Shape(ret[1]) = Parsed(tree, holder)

\* the same for calls in which no operator comes twice in a row
C21_MixedOnly ==
  (hist # <<>> /\ \A i \in 1..(Len(holder) \div 2 - 1) :
                    OperatorName(holder[2 * i - 1]) # OperatorName(holder[2 * i + 1])
               /\ Len(holder) <= 4)
    => Shape(ret[1]) = Parsed(tree, holder)

(***************************************************************************)
(* SpecTuple: a Tuple of two names matched against its text, with and      *)
(* without parentheses, alone and as the value of an expression statement. *)
(***************************************************************************)
MaxTupleCalls == 3

\* create_node.Tuple
Tuple(elts) == [kind |-> "Tuple", elts |-> PyList(elts), matcher |-> <<>>]

TupleElements ==
  {<<"a">> \o sep \o <<"b">> : sep \in {<<",", " ">>, <<",">>, <<" ", ",", " ">>}}

\* the texts of a tuple that is not wrapped in parentheses, with what may
\* follow its last element on the line
BareTupleTexts ==
  {elts \o after : elts \in TupleElements,
     after \in {<<>>, <<" ">>, <<"\n">>, <<",">>, <<",", " ">>, <<",", "\n">>,
                <<" ", "\n">>}}

WrappedTupleTexts ==
  {open \o elts \o close : elts \in TupleElements,
     open \in {<<"(">>, <<"(", " ">>},
     close \in {<<")">>, <<",", ")">>, <<" ", ")">>}}

TupleInputs ==
  {[node |-> Tuple(<<Name(<<"a">>), Name(<<"b">>)>>), text |-> t] :
     t \in BareTupleTexts \cup WrappedTupleTexts}
  \cup {[node |-> Expr(Tuple(<<Name(<<"a">>), Name(<<"b">>)>>), 1, FALSE), text |-> t] :
          t \in {b \in BareTupleTexts : b[Len(b)] = "\n"}}

InitTuple ==
  \E input \in TupleInputs :
    /\ tree = input.node
    /\ text = input.text
    /\ holder = <<>>
    /\ out = <<>>
    /\ ret = <<>>
    /\ err = NoError
    /\ hist = <<>>

\* matcher = GetMatcher(node); matcher.Match(text)
TupleMatch ==
  /\ hist = <<>>
  /\ LET returns(r) ==
           /\ tree' = [r.node EXCEPT !.matcher = <<>>]
           /\ holder' = r.node.matcher
           /\ ret' = r.s
           /\ err' = r.err
           /\ hist' = <<[op |-> "Match",
                         none |-> IF "none" \in DOMAIN r THEN r.none ELSE FALSE]>>
     IN returns(Invoke("MatcherMatch",
                       <<[tree EXCEPT !.matcher = <<GetMatcher(tree, <<>>)>>], text>>))
  /\ UNCHANGED <<text, out>>

\* matcher.GetSource()
TupleGetSource ==
  /\ hist # <<>>
  /\ err = NoError
  /\ Len(hist) < MaxTupleCalls
  /\ LET returns(r) == /\ tree' = [r.node EXCEPT !.matcher = <<>>]
                       /\ holder' = r.node.matcher
                       /\ out' = r.s
                       /\ err' = r.err
     IN returns(Invoke("MatcherGetSource", <<[tree EXCEPT !.matcher = holder]>>))
  /\ hist' = Append(hist, [op |-> "GetSource", none |-> FALSE])
  /\ UNCHANGED <<text, ret>>

NextTuple == TupleMatch \/ TupleGetSource

SpecTuple == InitTuple /\ [][NextTuple]_vars

\* the source recorded for the tuple
TupleSource ==
  IF tree.kind = "Tuple"
  THEN Invoke("MatcherGetSource", <<[tree EXCEPT !.matcher = holder]>>).s
  ELSE Invoke("MatcherGetSource", <<tree.value>>).s

\* the tuple matched without parentheses: the recorded source stops at the
\* last element or trailing comma, and the newline is left to the statement
BareTupleMatched ==
  /\ err = NoError
  /\ ~hist[1].none
  /\ TupleSource = RStrip(text)
  /\ ret = IF tree.kind = "Tuple" THEN RStrip(text) ELSE text
  /\ Len(hist) > 1 => out = ret

\* C25: a Tuple matched against text in which it is not wrapped in
\* parentheses records a source without trailing whitespace or newline after
\* the last element or trailing comma, and leaves the newline of the
\* statement to the template of the statement; a Tuple wrapped in
\* parentheses returns the matched text with both parentheses from Match.
C25_TupleMatch ==
  hist # <<>>
    => IF text[1] = "("
       THEN /\ err = NoError
            /\ ~hist[1].none
            /\ ret = text
       ELSE BareTupleMatched

\* the part of C25 on tuples without parentheses
C25_BareTuple == (hist # <<>> /\ text[1] # "(") => BareTupleMatched

(***************************************************************************)
(* SpecWith: a With node whose body is a With node, matched against        *)
(*   with X [as c], Y [as d]:                                              *)
(* and a With node with a plain body matched against  with X [as c]:       *)
(***************************************************************************)
MaxWithCalls == 3

\* create_node.With with an as_part
WithAs(with_part, as_part, body, uid) ==
  [With(with_part, body, uid, FALSE) EXCEPT !.optional_vars = as_part]

WithIdentifiers == {<<"a">>, <<"b">>, <<"w", "i", "t", "h", "b">>}

\* the text of a with item
WithItem(name, as_part) ==
  name \o (IF as_part.kind = "None" THEN <<>> ELSE <<" ", "a", "s", " ">> \o as_part.id.v)

WithInputs ==
  {[node |-> WithAs(Name(x), as[1],
                    <<WithAs(Name(y), as[2], <<Pass(3, FALSE)>>, 2)>>, 1),
    text |-> <<"w", "i", "t", "h", " ">> \o WithItem(x, as[1]) \o sep
               \o WithItem(y, as[2]) \o <<":", "\n", " ", " ", "p", "a", "s", "s", "\n">>] :
     x \in WithIdentifiers, y \in WithIdentifiers,
     as \in {<<PyNone, PyNone>>, <<Name(<<"c">>), Name(<<"d">>)>>},
     sep \in {<<",", " ">>, <<",">>, <<" ", ",", " ">>}}
  \cup
  {[node |-> WithAs(Name(x), as, <<Pass(3, FALSE)>>, 1),
    text |-> <<"w", "i", "t", "h", " ">> \o WithItem(x, as)
               \o <<":", "\n", " ", " ", "p", "a", "s", "s", "\n">>] :
     x \in WithIdentifiers, as \in {PyNone, Name(<<"c">>)}}

InitWith ==
  \E input \in WithInputs :
    /\ tree = input.node
    /\ text = input.text
    /\ holder = <<>>
    /\ out = <<>>
    /\ ret = <<>>
    /\ err = NoError
    /\ hist = <<>>

\* matcher = GetMatcher(node); matcher.Match(text)
WithMatch ==
  /\ hist = <<>>
  /\ LET returns(r) == /\ tree' = [r.node EXCEPT !.matcher = <<>>]
                       /\ holder' = r.node.matcher
                       /\ ret' = r.s
                       /\ err' = r.err
     IN returns(Invoke("MatcherMatch",
                       <<[tree EXCEPT !.matcher = <<GetMatcher(tree, <<>>)>>], text>>))
  /\ hist' = <<[op |-> "Match"]>>
  /\ UNCHANGED <<text, out>>

\* matcher.GetSource()
WithGetSource ==
  /\ hist # <<>>
  /\ err = NoError
  /\ Len(hist) < MaxWithCalls
  /\ LET returns(r) == /\ tree' = [r.node EXCEPT !.matcher = <<>>]
                       /\ holder' = r.node.matcher
                       /\ out' = r.s
                       /\ err' = r.err
     IN returns(Invoke("MatcherGetSource", <<[tree EXCEPT !.matcher = holder]>>))
  /\ hist' = Append(hist, [op |-> "GetSource"])
  /\ UNCHANGED <<text, ret>>

NextWith == WithMatch \/ WithGetSource

SpecWith == InitWith /\ [][NextWith]_vars

\* the text went on with a comma after the first item
CompoundText == tree.body.items[1].kind = "With"

\* C23: a With matched against text that goes on with `,` after its
\* context_expr and optional_vars sets is_compound_with, records the
\* separator and matches the With in body[0] without the keyword; GetSource
\* then gives back `with X as c, Y as d:` and the body exactly, whatever the
\* identifiers X and Y, and marks the inner matcher starting_with false.
C23_CompoundWith ==
  (hist # <<>> /\ CompoundText)
    => /\ err = NoError
       /\ holder[1].is_compound_with
       /\ holder[1].placeholders[4].matched_text # <<>>
       /\ Len(hist) > 1
            => /\ out = text
               /\ ~tree.body.items[1].matcher[1].starting_with

\* the same where the second identifier does not begin with the keyword
C23_OtherIdentifiers ==
  (CompoundText
     /\ ~StartsWith(tree.body.items[1].context_expr.id.v, <<"w", "i", "t", "h">>))
    => C23_CompoundWith

\* a With with a plain body is given back with its colon
C23_PlainWith ==
  (hist # <<>> /\ ~CompoundText)
    => /\ err = NoError
       /\ ~holder[1].is_compound_with
       /\ Len(hist) > 1 => out = text

(***************************************************************************)
(* SpecIf: an If node with an orelse matched against its text in the elif  *)
(* form or in the else form, at two indentations, with or without a blank  *)
(* or comment line before the elif or else line.                           *)
(***************************************************************************)
MaxIfCalls == 3

IfIndents == {<<>>, <<" ", " ">>}

\* the lines that may stand between the body and the elif or else line
IfGaps == {<<>>, <<"\n">>, <<"#", "c", "\n">>, <<" ", " ", " ", " ", "#", "c", "\n">>}

\* the line  <indent><keyword> <name>:
ConditionLine(indent, keyword, name) == indent \o keyword \o <<" ", name, ":", "\n">>

ElseLine(indent) == indent \o <<"e", "l", "s", "e", ":", "\n">>

PassLine(indent) == indent \o <<"p", "a", "s", "s", "\n">>

\* if a: pass, then the gap and the rest
IfText(indent, gap, rest) ==
  ConditionLine(indent, <<"i", "f">>, "a") \o PassLine(indent \o <<" ", " ">>)
    \o gap \o rest

\* an If node with the texts of its orelse, in every form the orelse has
IfInputs ==
  LET in(indent) == indent \o <<" ", " ">>
      elif(indent) == ConditionLine(indent, <<"e", "l", "i", "f">>, "b")
                        \o PassLine(in(indent))
      nested(indent) == ElseLine(indent)
                          \o ConditionLine(in(indent), <<"i", "f">>, "b")
                          \o PassLine(in(in(indent)))
      else(indent) == ElseLine(indent) \o PassLine(in(indent))
      If_b(orelse) == If(Name(<<"b">>), <<Pass(4, FALSE)>>, orelse, 3)
      If_a(orelse) == If(Name(<<"a">>), <<Pass(2, FALSE)>>, orelse, 1)
  IN UNION {
       {[node |-> If_a(<<If_b(<<>>)>>), text |-> IfText(indent, gap, elif(indent))],
        [node |-> If_a(<<If_b(<<>>)>>), text |-> IfText(indent, gap, nested(indent))],
        [node |-> If_a(<<Pass(5, FALSE)>>), text |-> IfText(indent, gap, else(indent))],
        [node |-> If_a(<<If_b(<<Pass(5, FALSE)>>)>>),
         text |-> IfText(indent, gap, elif(indent) \o else(indent))],
        [node |-> If_a(<<If_b(<<Pass(5, FALSE)>>)>>),
         text |-> IfText(indent, gap, nested(indent) \o else(in(indent)))]} :
       indent \in IfIndents, gap \in IfGaps}

InitIf ==
  \E input \in IfInputs :
    /\ tree = input.node
    /\ text = input.text
    /\ holder = <<>>
    /\ out = <<>>
    /\ ret = <<>>
    /\ err = NoError
    /\ hist = <<>>

\* matcher = GetMatcher(node); matcher.Match(text)
IfMatch ==
  /\ hist = <<>>
  /\ LET returns(r) == /\ tree' = [r.node EXCEPT !.matcher = <<>>]
                       /\ holder' = r.node.matcher
                       /\ ret' = r.s
                       /\ err' = r.err
     IN returns(Invoke("MatcherMatch",
                       <<[tree EXCEPT !.matcher = <<GetMatcher(tree, <<>>)>>], text>>))
  /\ hist' = <<[op |-> "Match"]>>
  /\ UNCHANGED <<text, out>>

\* matcher.GetSource()
IfGetSource ==
  /\ hist # <<>>
  /\ err = NoError
  /\ Len(hist) < MaxIfCalls
  /\ LET returns(r) == /\ tree' = [r.node EXCEPT !.matcher = <<>>]
                       /\ holder' = r.node.matcher
                       /\ out' = r.s
                       /\ err' = r.err
     IN returns(Invoke("MatcherGetSource", <<[tree EXCEPT !.matcher = holder]>>))
  /\ hist' = Append(hist, [op |-> "GetSource"])
  /\ UNCHANGED <<text, ret>>

NextIf == IfMatch \/ IfGetSource

SpecIf == InitIf /\ [][NextIf]_vars

\* the lines of the text after the if line and the one statement of the body
AfterBody == SubSeq(SplitLines(text), 3, Len(SplitLines(text)))

\* the number of blank and comment lines at the head of lines
RECURSIVE LeadingFreeLines(_)
LeadingFreeLines(lines) ==
  IF lines # <<>> /\ IsFreeLine(Head(lines)) THEN 1 + LeadingFreeLines(Tail(lines))
  ELSE 0

\* the text after the body, past the blank and comment lines, begins with
\* elif
ElifForm ==
  StartsWith(LStrip(AfterBody[LeadingFreeLines(AfterBody) + 1]), <<"e", "l", "i", "f">>)

\* C22: after IfSourceMatcher.Match on a node with an orelse, is_elif is
\* true exactly when the text after the body, past the blank and comment
\* lines (which are in the body list), begins with elif; GetSource then
\* gives the orelse back in the form that was matched: elif at the same
\* indent, or the recorded else line and the orelse body.
C22_ElifRemembered ==
  hist # <<>>
    => /\ err = NoError
       /\ holder[1].is_elif <=> ElifForm
       /\ Len(tree.body.items) = 1 + LeadingFreeLines(AfterBody)
       /\ Len(hist) > 1 => out = text

\* an elif after a blank line, matched and given back
C22_Witness ==
  /\ Len(hist) = 2
  /\ holder[1].is_elif
  /\ ElifForm
  /\ LeadingFreeLines(AfterBody) = 1
  /\ StartsWith(text, <<" ">>)
  /\ out = text

(***************************************************************************)
(* SpecRepeat: GetSource called again and again on a matcher, matched or   *)
(* not, before and after a field of the node is assigned: a Tuple that     *)
(* gets a new element, a Str of two parts that gets a new value, a With    *)
(* over a With and an If with an elif that get a new expression.           *)
(***************************************************************************)
MaxRepeatCalls == 6

RepeatInputs ==
  {[node |-> Tuple(<<Name(<<"a">>), Name(<<"b">>)>>), text |-> t] :
     t \in {<<"a", ",", " ", "b">>, <<"a", " ", ",", "b">>, <<"(", "a", ",", "b", ")">>}}
  \cup
  {[node |-> Str(<<"a", "b">>), text |-> t] :
     t \in {<<"\"", "a", "\"", " ", "\"", "b", "\"">>,
            <<"'", "a", "'", "\n", "'", "b", "'">>,
            <<"'", "a", "b", "'">>}}
  \cup
  {[node |-> With(Name(<<"a">>), <<With(Name(<<"b">>), <<Pass(3, FALSE)>>, 2, FALSE)>>,
                  1, FALSE),
    text |-> <<"w", "i", "t", "h", " ", "a">> \o sep
               \o <<"b", ":", "\n", " ", " ", "p", "a", "s", "s", "\n">>] :
     sep \in {<<",", " ">>, <<" ", ",">>}}
  \cup
  {[node |-> If(Name(<<"a">>), <<Pass(2, FALSE)>>,
                <<If(Name(<<"b">>), <<Pass(4, FALSE)>>, <<>>, 3)>>, 1),
    text |-> IfText(<<>>, gap, ConditionLine(<<>>, <<"e", "l", "i", "f">>, "b")
                                 \o PassLine(<<" ", " ">>))] :
     gap \in {<<>>, <<"\n">>}}

InitRepeat ==
  \E input \in RepeatInputs :
    /\ tree = input.node
    /\ text = input.text
    /\ holder = <<>>
    /\ out = <<>>
    /\ ret = <<>>
    /\ err = NoError
    /\ hist = <<>>

\* matcher = GetMatcher(node), which is not matched
RepeatGetMatcher ==
  /\ hist = <<>>
  /\ holder' = <<GetMatcher(tree, <<>>)>>
  /\ hist' = <<[op |-> "GetMatcher"]>>
  /\ UNCHANGED <<tree, text, out, ret, err>>

\* matcher = GetMatcher(node); matcher.Match(text)
RepeatMatch ==
  /\ hist = <<>>
  /\ LET returns(r) == /\ tree' = [r.node EXCEPT !.matcher = <<>>]
                       /\ holder' = r.node.matcher
                       /\ ret' = r.s
                       /\ err' = r.err
     IN returns(Invoke("MatcherMatch",
                       <<[tree EXCEPT !.matcher = <<GetMatcher(tree, <<>>)>>], text>>))
  /\ hist' = <<[op |-> "Match"]>>
  /\ UNCHANGED <<text, out>>

\* node.elts.append(Name('c')), node.s = 'c', node.context_expr = Name('c')
\* or node.test = Name('c')
RepeatAssign ==
  /\ hist # <<>>
  /\ err = NoError
  /\ Len(hist) < MaxRepeatCalls
  /\ \A k \in DOMAIN hist : hist[k].op # "Assign"
  /\ tree' = CASE tree.kind = "Tuple" ->
                    [tree EXCEPT !.elts.items = Append(@, Name(<<"c">>))]
               [] tree.kind = "Str" -> [tree EXCEPT !.s = PyStr(<<"c">>)]
               [] tree.kind = "With" -> [tree EXCEPT !.context_expr = Name(<<"c">>)]
               [] tree.kind = "If" -> [tree EXCEPT !.test = Name(<<"c">>)]
  /\ hist' = Append(hist, [op |-> "Assign"])
  /\ UNCHANGED <<text, holder, out, ret, err>>

\* matcher.GetSource()
RepeatGetSource ==
  /\ hist # <<>>
  /\ Len(hist) < MaxRepeatCalls
  /\ LET returns(r) == /\ tree' = [r.node EXCEPT !.matcher = <<>>]
                       /\ holder' = r.node.matcher
                       /\ out' = r.s
                       /\ err' = r.err
     IN returns(Invoke("MatcherGetSource", <<[tree EXCEPT !.matcher = holder]>>))
  /\ hist' = Append(hist, [op |-> "GetSource"])
  /\ UNCHANGED <<text, ret>>

NextRepeat == RepeatGetMatcher \/ RepeatMatch \/ RepeatAssign \/ RepeatGetSource

SpecRepeat == InitRepeat /\ [][NextRepeat]_vars

\* the last call was a GetSource
Rendering == hist # <<>> /\ hist[Len(hist)].op = "GetSource"

\* C29: a GetSource that follows a GetSource, with no Match and no
\* assignment between them, gives what the first one gave, on a matched and
\* on an unmatched node: what rendering leaves behind (the separators made
\* for new list indices, the collapsed parts of a string, the mark on the
\* inner matcher of a compound with) does not change what comes next.
C29_RenderingRepeatable ==
  [][(Rendering /\ hist' = Append(hist, [op |-> "GetSource"]))
       => (err' = err /\ out' = out)]_vars

\* the same for a GetSource that follows a GetSource that returned a string
C29_ReturnedRenderings ==
  [][(Rendering /\ err = NoError /\ hist' = Append(hist, [op |-> "GetSource"]))
       => (err' = NoError /\ out' = out)]_vars
====
